---- MODULE Spec2Model ----
(***************************************************************************)
(* Model of the data layer of the submission-intake bot: the hash/set      *)
(* store (bot/storage.py), the record operations built on it               *)
(* (bot/admin.py, bot/workflow.py) and the photo storage backends          *)
(* (bot/media_storage.py).                                                 *)
(*                                                                         *)
(* Strings are sequences of one-character strings, so that str(), join     *)
(* and isoformat() are real conversions.  Python's None is the value None. *)
(* A store call that raises ValkeyError is an input of the operation: the  *)
(* number of the call that raises (0: none does).                          *)
(***************************************************************************)
EXTENDS Integers, Sequences, FiniteSets, TLC

VARIABLES
    client,     \* bot_data["valkey_client"] is configured (TRUE) or None
    hashes,     \* the store's hashes: key -> (field -> string)
    sets,       \* the store's sets: key -> set of members
    now,        \* the wall clock read by datetime.now(UTC)
    media,      \* the photo storage: backend, object prefix, files,
                \* directories and bucket objects
    last,       \* the operation performed by the latest step, with its result
    jobs        \* the job queue: the jobs waiting to fire and the local
                \* variables of the jobs that are executing

vars == <<client, hashes, sets, now, media, last, jobs>>

----------------------------------------------------------------------------
(* Bounds *)

MaxClock == 1       \* the clock takes the values 0..MaxClock
MaxFetchKeys == 3   \* keys of the stores that the fetch operations are applied to
MaxHandleSegs == 2  \* segments of the photo handles that are tried

----------------------------------------------------------------------------
(* Values *)

\* an empty job queue with no job executing
NoJobs == [queue |-> {}, running |-> <<>>, issued |-> {}]

Users == {1, 12}
SuperAdminIds == {12}
SessionKeys == {<<"k", "1">>}
Prefix == <<"t">>
None == <<"<None>">>
EmptyStr == <<>>
EmptyMap == <<>>

Digits == <<"0", "1", "2", "3", "4", "5", "6", "7", "8", "9">>

\* str(n) of a non-negative int
RECURSIVE ToStr(_)
ToStr(n) ==
    IF n < 10 THEN <<Digits[n + 1]>>
    ELSE ToStr(n \div 10) \o <<Digits[(n % 10) + 1]>>

\* datetime.isoformat(): fixed width, so that string order is time order
IsoFormat(t) == <<Digits[(t \div 10) + 1], Digits[(t % 10) + 1]>>

\* ",".join(items)
RECURSIVE Join(_)
Join(items) ==
    IF Len(items) = 0 THEN EmptyStr
    ELSE IF Len(items) = 1 THEN items[1]
    ELSE items[1] \o <<",">> \o Join(Tail(items))

\* the characters of the model's strings in code point order, and the
\* order of str values that sorted() and list.sort() use
Alphabet == <<" ", "+", ",", ".", "/", "0", "1", "2", "3", "4", "5", "6", "7",
              "8", "9", ":", "N", "O", "a", "b", "c", "f", "k", "p", "s", "t">>

Rank(ch) == CHOOSE i \in 1..Len(Alphabet) : Alphabet[i] = ch

RECURSIVE StrLess(_, _)
StrLess(a, b) ==
    IF Len(b) = 0 THEN FALSE
    ELSE IF Len(a) = 0 THEN TRUE
    ELSE IF a[1] = b[1] THEN StrLess(Tail(a), Tail(b))
    ELSE Rank(a[1]) < Rank(b[1])

\* sorted(strings) of a set of strings
RECURSIVE Sorted(_)
Sorted(strings) ==
    IF strings = {} THEN <<>>
    ELSE LET least == CHOOSE x \in strings :
                        \A y \in strings \ {x} : StrLess(x, y)
         IN <<least>> \o Sorted(strings \ {least})

\* Python values passed as keyword arguments
PyStr(s) == [t |-> "str", v |-> s]
PyList(l) == [t |-> "list", v |-> l]
PyNone == [t |-> "none"]
PyInt(n) == [t |-> "int", v |-> n]

\* dict.get(field) and truthiness of its result
Get(record, field) == IF field \in DOMAIN record THEN record[field] ELSE None
Truthy(value) == value # None /\ value # EmptyStr

----------------------------------------------------------------------------
(* The hash/set store *)

Merge(old, mapping) ==
    [f \in DOMAIN old \cup DOMAIN mapping |->
        IF f \in DOMAIN mapping THEN mapping[f] ELSE old[f]]

HSet(h, name, mapping) ==
    [k \in DOMAIN h \cup {name} |->
        IF k = name
        THEN Merge(IF name \in DOMAIN h THEN h[name] ELSE EmptyMap, mapping)
        ELSE h[k]]

HGetAll(h, name) == IF name \in DOMAIN h THEN h[name] ELSE EmptyMap

\* variant: the number of fields named in the call is returned
HDelRemoved_requested(h, name, fields) ==
    IF name \notin DOMAIN h THEN 0 ELSE Cardinality(fields)

HDelRemoved(h, name, fields) ==
    IF name \notin DOMAIN h \/ h[name] = EmptyMap THEN 0
    ELSE Cardinality(fields \cap DOMAIN h[name])

HDel(h, name, fields) ==
    IF name \notin DOMAIN h \/ h[name] = EmptyMap THEN h
    ELSE LET target == [f \in DOMAIN h[name] \ fields |-> h[name][f]]
         IN IF target = EmptyMap
            THEN [k \in DOMAIN h \ {name} |-> h[k]]
            ELSE [h EXCEPT ![name] = target]

SMembers(s, name) == IF name \in DOMAIN s THEN s[name] ELSE {}

SAdd(s, name, member) ==
    [k \in DOMAIN s \cup {name} |->
        IF k = name THEN SMembers(s, name) \cup {member} ELSE s[k]]

SAddResult(s, name, member) == IF member \in SMembers(s, name) THEN 0 ELSE 1

SRem(s, name, member) ==
    IF member \notin SMembers(s, name) THEN s
    ELSE [s EXCEPT ![name] = @ \ {member}]

SRemResult(s, name, member) == IF member \in SMembers(s, name) THEN 1 ELSE 0

----------------------------------------------------------------------------
(* Record operations of bot/admin.py *)

AppKey(session_key) == Prefix \o <<":">> \o session_key
ApplicationsKey == Prefix \o <<":">> \o <<"applications">>

load_application(h, key, faulty) ==
    IF faulty THEN EmptyMap ELSE HGetAll(h, key)

OwnerIs(record, user_id) == Get(record, "user_id") = ToStr(user_id)

\* variant: the ownership comparison is left out
mark_application_revoked_any_user(c, h, session_key, user_id, t, fault) ==
    LET key == AppKey(session_key)
        record == load_application(h, key, fault = 1)
    IN  IF ~c \/ record = EmptyMap \/ Truthy(Get(record, "revoked_at"))
           \/ fault = 2
        THEN [ret |-> FALSE, hashes |-> h]
        ELSE [ret |-> TRUE,
              hashes |-> HSet(h, key, ("revoked_at" :> IsoFormat(t))
                                      @@ ("revoked_by" :> ToStr(user_id)))]

\* variant: the already-revoked gate is left out
mark_application_revoked_again(c, h, session_key, user_id, t, fault) ==
    LET key == AppKey(session_key)
        record == load_application(h, key, fault = 1)
    IN  IF ~c \/ record = EmptyMap \/ ~OwnerIs(record, user_id) \/ fault = 2
        THEN [ret |-> FALSE, hashes |-> h]
        ELSE [ret |-> TRUE,
              hashes |-> HSet(h, key, ("revoked_at" :> IsoFormat(t))
                                      @@ ("revoked_by" :> ToStr(user_id)))]

mark_application_revoked(c, h, session_key, user_id, t, fault) ==
    LET key == AppKey(session_key)
        record == load_application(h, key, fault = 1)
        timestamp == IsoFormat(t)
        fail == [ret |-> FALSE, hashes |-> h]
    IN  IF ~c THEN fail
        ELSE IF record = EmptyMap THEN fail
        ELSE IF ~OwnerIs(record, user_id) THEN fail
        ELSE IF Truthy(Get(record, "revoked_at")) THEN fail
        ELSE IF timestamp = EmptyStr THEN fail
        ELSE IF fault = 2 THEN fail
        ELSE [ret |-> TRUE,
              hashes |-> HSet(h, key, ("revoked_at" :> timestamp)
                                      @@ ("revoked_by" :> ToStr(user_id)))]

\* variant: the items of a list are joined in sorted order
SerializeField_sorted(value) ==
    IF value.t = "list" THEN Join(Sorted({value.v[i] : i \in 1..Len(value.v)}))
    ELSE IF value.t = "none" THEN EmptyStr
    ELSE IF value.t = "int" THEN ToStr(value.v)
    ELSE value.v

\* the serialization loop: ",".join of a list, "" for None, str() otherwise
SerializeField(value) ==
    IF value.t = "list" THEN Join(value.v)
    ELSE IF value.t = "none" THEN EmptyStr
    ELSE IF value.t = "int" THEN ToStr(value.v)
    ELSE value.v

\* variant: the ownership comparison is left out
update_application_fields_any_user(c, h, session_key, user_id, fields, fault) ==
    LET key == AppKey(session_key)
        record == load_application(h, key, fault = 1)
        serialized == [f \in DOMAIN fields |-> SerializeField(fields[f])]
    IN  IF fields = EmptyMap THEN [ret |-> TRUE, hashes |-> h]
        ELSE IF ~c \/ record = EmptyMap \/ fault = 2
        THEN [ret |-> FALSE, hashes |-> h]
        ELSE [ret |-> TRUE, hashes |-> HSet(h, key, serialized)]

\* variant: a missing record is created instead of being reported
update_application_fields_upsert(c, h, session_key, user_id, fields, fault) ==
    LET key == AppKey(session_key)
        record == load_application(h, key, fault = 1)
        serialized == [f \in DOMAIN fields |-> SerializeField(fields[f])]
    IN  IF fields = EmptyMap THEN [ret |-> TRUE, hashes |-> h]
        ELSE IF ~c \/ fault # 0 THEN [ret |-> FALSE, hashes |-> h]
        ELSE IF record # EmptyMap /\ ~OwnerIs(record, user_id)
        THEN [ret |-> FALSE, hashes |-> h]
        ELSE [ret |-> TRUE, hashes |-> HSet(h, key, serialized)]

update_application_fields(c, h, session_key, user_id, fields, fault) ==
    LET key == AppKey(session_key)
        record == load_application(h, key, fault = 1)
        serialized == [f \in DOMAIN fields |-> SerializeField(fields[f])]
        fail == [ret |-> FALSE, hashes |-> h]
    IN  IF fields = EmptyMap THEN [ret |-> TRUE, hashes |-> h]
        ELSE IF ~c THEN fail
        ELSE IF record = EmptyMap THEN fail
        ELSE IF ~OwnerIs(record, user_id) THEN fail
        ELSE IF fault = 2 THEN fail
        ELSE [ret |-> TRUE, hashes |-> HSet(h, key, serialized)]

\* variant: the reviewer id is written to the owner field
mark_application_reviewed_as_owner(c, h, session_key, reviewer_id, t, fault) ==
    LET key == AppKey(session_key)
        record == load_application(h, key, fault = 1)
    IN  IF ~c \/ record = EmptyMap \/ fault = 2
        THEN [ret |-> None, hashes |-> h]
        ELSE [ret |-> IsoFormat(t),
              hashes |-> HSet(h, key, ("reviewed_at" :> IsoFormat(t))
                                      @@ ("reviewed_by" :> ToStr(reviewer_id))
                                      @@ ("user_id" :> ToStr(reviewer_id)))]

\* variant: the two fields are written by two hset calls, the second of which
\* is the one that can raise
mark_application_reviewed_two_writes(c, h, session_key, reviewer_id, t, fault) ==
    LET key == AppKey(session_key)
        record == load_application(h, key, fault = 1)
        first == HSet(h, key, ("reviewed_at" :> IsoFormat(t)))
    IN  IF ~c \/ record = EmptyMap THEN [ret |-> None, hashes |-> h]
        ELSE IF fault = 2 THEN [ret |-> None, hashes |-> first]
        ELSE [ret |-> IsoFormat(t),
              hashes |-> HSet(first, key, ("reviewed_by" :> ToStr(reviewer_id)))]

\* variant: a missing record is not reported, the pair is written
mark_application_reviewed_upsert(c, h, session_key, reviewer_id, t, fault) ==
    LET key == AppKey(session_key)
    IN  IF ~c \/ fault # 0 THEN [ret |-> None, hashes |-> h]
        ELSE [ret |-> IsoFormat(t),
              hashes |-> HSet(h, key, ("reviewed_at" :> IsoFormat(t))
                                      @@ ("reviewed_by" :> ToStr(reviewer_id)))]

mark_application_reviewed(c, h, session_key, reviewer_id, t, fault) ==
    LET key == AppKey(session_key)
        record == load_application(h, key, fault = 1)
        timestamp == IsoFormat(t)
        fail == [ret |-> None, hashes |-> h]
    IN  IF ~c THEN fail
        ELSE IF record = EmptyMap THEN fail
        ELSE IF fault = 2 THEN fail
        ELSE [ret |-> timestamp,
              hashes |-> HSet(h, key, ("reviewed_at" :> timestamp)
                                      @@ ("reviewed_by" :> ToStr(reviewer_id)))]

\* variant: only one field of the pair is deleted
clear_application_review_half(c, h, session_key, fault) ==
    LET key == AppKey(session_key)
        record == load_application(h, key, fault = 1)
    IN  IF ~c \/ record = EmptyMap \/ fault = 2
        THEN [ret |-> FALSE, hashes |-> h]
        ELSE [ret |-> TRUE, hashes |-> HDel(h, key, {"reviewed_at"})]

clear_application_review(c, h, session_key, fault) ==
    LET key == AppKey(session_key)
        record == load_application(h, key, fault = 1)
        fail == [ret |-> FALSE, hashes |-> h]
    IN  IF ~c THEN fail
        ELSE IF record = EmptyMap THEN fail
        ELSE IF fault = 2 THEN fail
        ELSE [ret |-> TRUE,
              hashes |-> HDel(h, key, {"reviewed_at", "reviewed_by"})]

----------------------------------------------------------------------------
(* Read operations of bot/admin.py *)

\* list_application_keys: the sorted index, or [] when the read raises
list_application_keys(c, s, faulty) ==
    IF ~c \/ faulty THEN <<>> ELSE Sorted(SMembers(s, ApplicationsKey))

CreatedAt(item) == IF "created_at" \in DOMAIN item THEN item["created_at"] ELSE EmptyStr

\* list.sort(key=created_at, reverse=True): descending and stable
RECURSIVE InsertDescending(_, _)
InsertDescending(sorted, item) ==
    IF Len(sorted) = 0 THEN <<item>>
    ELSE IF StrLess(CreatedAt(sorted[1]), CreatedAt(item))
    THEN <<item>> \o sorted
    ELSE <<sorted[1]>> \o InsertDescending(Tail(sorted), item)

RECURSIVE SortDescending(_)
SortDescending(items) ==
    IF Len(items) = 0 THEN <<>>
    ELSE InsertDescending(SortDescending(SubSeq(items, 1, Len(items) - 1)),
                          items[Len(items)])

NonEmpty(record) == record # EmptyMap

\* the records loaded for the keys, in key order; call i + 1 loads keys[i]
LoadAll(h, keys, fault) ==
    [i \in 1..Len(keys) |-> load_application(h, keys[i], fault = i + 1)]

Unavailable == [unavailable |-> TRUE, items |-> <<>>]
Listed(items) == [unavailable |-> FALSE, items |-> items]

\* variant: the records stay in key order
fetch_all_submissions_unsorted(c, h, s, fault) ==
    IF ~c THEN Unavailable
    ELSE Listed(SelectSeq(LoadAll(h, list_application_keys(c, s, fault = 1), fault),
                          NonEmpty))

\* variant: empty hashes are kept
fetch_all_submissions_keep_empty(c, h, s, fault) ==
    IF ~c THEN Unavailable
    ELSE Listed(SortDescending(
            LoadAll(h, list_application_keys(c, s, fault = 1), fault)))

fetch_all_submissions(c, h, s, fault) ==
    IF ~c THEN Unavailable
    ELSE LET keys == list_application_keys(c, s, fault = 1)
             submissions == SelectSeq(LoadAll(h, keys, fault), NonEmpty)
         IN Listed(SortDescending(submissions))

\* variant: the owner comparison is left out
fetch_user_submissions_all(c, h, s, user_id, fault) ==
    fetch_all_submissions(c, h, s, fault)

fetch_user_submissions(c, h, s, user_id, fault) ==
    LET submissions == fetch_all_submissions(c, h, s, fault)
        Owned(item) == Get(item, "user_id") = ToStr(user_id)
    IN  IF submissions.unavailable THEN Unavailable
        ELSE Listed(SelectSeq(submissions.items, Owned))

----------------------------------------------------------------------------
(* Submission completion of bot/workflow.py *)

PositionValues == {<<"O">>}
PhotoLists == {<< <<"a">>, <<"b">> >>}

\* the record written by _persist_application (display attributes other
\* than position are mirrored the same way and left out)
NewRecord(user_id, position, photos, t) ==
    ("user_id" :> ToStr(user_id))
    @@ ("position" :> position)
    @@ ("photos" :> Join(photos))
    @@ ("created_at" :> IsoFormat(t))

\* the keyword arguments the edit handlers of bot/editing.py supply
\* (position, description and condition are strings, photos is a list); the
\* names context, session_key and user_id are parameters of
\* update_application_fields and cannot occur among **fields
EditInputs ==
    { EmptyMap,
      ("position" :> PyStr(<<"N">>)),
      ("photos" :> PyList(<< <<"c">> >>)),
      ("photos" :> PyList(<<>>)) }

Clock == {t \in {now, now + 1} : t <= MaxClock}

----------------------------------------------------------------------------
(* Photo storage of bot/media_storage.py *)

(* A path is the sequence of the segments of an absolute, resolved path; a   *)
(* segment is a string.  Handles, session keys and file names are strings in *)
(* which "/" separates the segments.  There are no symbolic links.           *)

StorageRoot == << <<"r">> >>        \* the root (local) or cache directory (MinIO)
OutsideFile == << <<"f">> >>        \* a file that exists outside the root
MediaSessionKey == <<"s">>
FileNames == {<<"f">>}
ObjectPrefixes == {EmptyStr, <<"p", "/">>}

\* str.split("/")
RECURSIVE Split(_)
Split(str) ==
    IF Len(str) = 0 THEN << EmptyStr >>
    ELSE LET rest == Split(Tail(str))
         IN IF Head(str) = "/" THEN << EmptyStr >> \o rest
            ELSE << <<Head(str)>> \o rest[1] >> \o Tail(rest)

\* Path(str).parts without the root, Path(str).is_absolute(), Path(str).name
IsSegment(segment) == segment # EmptyStr /\ segment # <<".">>
Parts(str) == SelectSeq(Split(str), IsSegment)
IsAbsolute(str) == Len(str) > 0 /\ Head(str) = "/"
Name(str) == IF Len(Parts(str)) = 0 THEN EmptyStr ELSE Parts(str)[Len(Parts(str))]

\* Path.resolve(strict=False) of base / parts
RECURSIVE ResolveFrom(_, _)
ResolveFrom(path, parts) ==
    IF Len(parts) = 0 THEN path
    ELSE IF Head(parts) = <<"..">>
    THEN ResolveFrom(IF Len(path) = 0 THEN path
                     ELSE SubSeq(path, 1, Len(path) - 1), Tail(parts))
    ELSE ResolveFrom(Append(path, Head(parts)), Tail(parts))

\* Path.is_relative_to
IsRelativeTo(target, base) ==
    Len(base) <= Len(target) /\ SubSeq(target, 1, Len(base)) = base

\* _resolve_within: ok is false where the code raises FileNotFoundError
resolve_within(base, relative) ==
    LET target == ResolveFrom(base, Parts(relative))
    IN  IF IsAbsolute(relative) THEN [ok |-> FALSE, path |-> <<>>]
        ELSE IF ~IsRelativeTo(target, base) THEN [ok |-> FALSE, path |-> <<>>]
        ELSE [ok |-> TRUE, path |-> target]

Ancestors(path) == {SubSeq(path, 1, i) : i \in 0..Len(path)}
Exists(m, path) == path \in m.files \/ path \in m.dirs

\* Path.mkdir(parents=True, exist_ok=True)
CanMkdir(m, path) == Ancestors(path) \cap m.files = {}
Mkdir(m, path) == [m EXCEPT !.dirs = @ \cup Ancestors(path)]

NewStorage(backend, prefix, objects) ==
    [backend |-> backend, prefix |-> prefix,
     files |-> {OutsideFile}, dirs |-> Ancestors(StorageRoot),
     bucket |-> objects,
     fetched |-> EmptyMap]  \* handle -> number of fget_object calls served

\* MinioMediaStorage._object_name
RECURSIVE LStripSlash(_)
LStripSlash(str) ==
    IF Len(str) > 0 /\ Head(str) = "/" THEN LStripSlash(Tail(str)) ELSE str
object_name(m, handle) == m.prefix \o LStripSlash(handle)

\* fget_object(bucket, object_name, target): the file appears in the cache
Fetch(m, handle, target) ==
    [m EXCEPT !.files = @ \cup {target},
              !.fetched = (handle :> (IF handle \in DOMAIN @ THEN @[handle] ELSE 0) + 1)
                          @@ @]

Found(m, path) == [kind |-> "path", path |-> path, media |-> m, downloaded |-> FALSE]
Raised(m, kind) == [kind |-> kind, path |-> <<>>, media |-> m, downloaded |-> FALSE]

LocalMediaStorage_cache_photo(m, handle) ==
    IF IsAbsolute(handle)
    THEN LET resolved == ResolveFrom(<<>>, Parts(handle))
         IN IF ~Exists(m, resolved) THEN Raised(m, "FileNotFoundError")
            ELSE IF ~IsRelativeTo(resolved, StorageRoot)
            THEN Raised(m, "FileNotFoundError")
            ELSE Found(m, resolved)
    ELSE LET r == resolve_within(StorageRoot, handle)
         IN IF ~r.ok THEN Raised(m, "FileNotFoundError")
            ELSE IF ~Exists(m, r.path) THEN Raised(m, "FileNotFoundError")
            ELSE Found(m, r.path)

\* variant: the resolved target is not compared with the cache directory
MinioMediaStorage_cache_photo_unchecked(m, handle) ==
    LET target == ResolveFrom(StorageRoot, Parts(handle))
        parent == SubSeq(target, 1, Len(target) - 1)
        made == Mkdir(m, parent)
        object == object_name(m, handle)
    IN  IF IsAbsolute(handle) THEN Raised(m, "FileNotFoundError")
        ELSE IF ~CanMkdir(m, parent) THEN Raised(m, "FileExistsError")
        ELSE IF Exists(made, target) THEN Found(made, target)
        ELSE IF object \notin m.bucket THEN Raised(made, "FileNotFoundError")
        ELSE [kind |-> "path", path |-> target, downloaded |-> TRUE,
              media |-> Fetch(made, handle, target)]

\* variant: the object is fetched whether or not the target is cached
MinioMediaStorage_cache_photo_refetch(m, handle) ==
    LET target == ResolveFrom(StorageRoot, Parts(handle))
        parent == SubSeq(target, 1, Len(target) - 1)
        made == Mkdir(m, parent)
        object == object_name(m, handle)
    IN  IF IsAbsolute(handle) THEN Raised(m, "FileNotFoundError")
        ELSE IF ~IsRelativeTo(target, StorageRoot)
        THEN Raised(m, "FileNotFoundError")
        ELSE IF ~CanMkdir(m, parent) THEN Raised(m, "FileExistsError")
        ELSE IF object \notin m.bucket THEN Raised(made, "FileNotFoundError")
        ELSE [kind |-> "path", path |-> target, downloaded |-> TRUE,
              media |-> Fetch(made, handle, target)]

\* the cache directory is a required argument of the constructor, so the
\* RuntimeError for a missing one does not occur; mkdir raises
\* FileExistsError or NotADirectoryError when a file is in the way
MinioMediaStorage_cache_photo(m, handle) ==
    LET target == ResolveFrom(StorageRoot, Parts(handle))
        parent == SubSeq(target, 1, Len(target) - 1)
        made == Mkdir(m, parent)
        object == object_name(m, handle)
    IN  IF IsAbsolute(handle) THEN Raised(m, "FileNotFoundError")
        ELSE IF ~IsRelativeTo(target, StorageRoot)
        THEN Raised(m, "FileNotFoundError")
        ELSE IF ~CanMkdir(m, parent) THEN Raised(m, "FileExistsError")
        ELSE IF Exists(made, target) THEN Found(made, target)
        ELSE IF object \notin m.bucket THEN Raised(made, "FileNotFoundError")
        ELSE [kind |-> "path", path |-> target, downloaded |-> TRUE,
              media |-> Fetch(made, handle, target)]

cache_photo(m, handle) ==
    IF m.backend = "local" THEN LocalMediaStorage_cache_photo(m, handle)
    ELSE MinioMediaStorage_cache_photo(m, handle)

\* get_session: a MediaSession, or the error raised.  The local backend
\* resolves the key within the root and creates the directory; the MinIO
\* backend wraps the key as it is.
Session(m, key, directory) ==
    [kind |-> "session", key |-> key, directory |-> directory, media |-> m]
NoSession(m, kind) ==
    [kind |-> kind, key |-> None, directory |-> None, media |-> m]

LocalMediaStorage_get_session(m, session_key) ==
    LET r == resolve_within(StorageRoot, session_key)
    IN  IF ~r.ok THEN NoSession(m, "RuntimeError")
        ELSE IF ~CanMkdir(m, r.path) THEN NoSession(m, "FileExistsError")
        ELSE Session(Mkdir(m, r.path), session_key, r.path)

MinioMediaStorage_get_session(m, session_key) ==
    Session(m, session_key, None)

get_session(m, session_key) ==
    IF m.backend = "local" THEN LocalMediaStorage_get_session(m, session_key)
    ELSE MinioMediaStorage_get_session(m, session_key)

\* pathlib's base / str without resolution: an absolute str replaces base
JoinPath(base, str) == IF IsAbsolute(str) THEN Parts(str) ELSE base \o Parts(str)

\* allocate_path of a session of key session_key: the path returned, as
\* pathlib builds it (not resolved).  The local backend joins the base name
\* of filename to the session's directory, the MinIO backend joins the
\* session key and then filename to the cache directory.
LocalMediaStorage_allocate_path(session_key, filename) ==
    Append(resolve_within(StorageRoot, session_key).path, Name(filename))

MinioMediaStorage_allocate_path(session_key, filename) ==
    JoinPath(JoinPath(StorageRoot, session_key), filename)

\* the directory allocate_path creates for the session
SessionDirectory(m, session_key) ==
    IF m.backend = "local" THEN resolve_within(StorageRoot, session_key).path
    ELSE JoinPath(StorageRoot, session_key)

Allocated(m, path) == [kind |-> "path", path |-> path, media |-> m]
NotAllocated(m, kind) == [kind |-> kind, path |-> <<>>, media |-> m]

allocate_path(m, session_key, filename) ==
    LET directory == ResolveFrom(<<>>, SessionDirectory(m, session_key))
        made == Mkdir(m, directory)
    IN  IF ~CanMkdir(m, directory) THEN NotAllocated(m, "FileExistsError")
        ELSE IF m.backend = "local"
        THEN IF Name(filename) = EmptyStr THEN NotAllocated(made, "ValueError")
             ELSE Allocated(made, LocalMediaStorage_allocate_path(session_key, filename))
        ELSE Allocated(made, MinioMediaStorage_allocate_path(session_key, filename))

\* finalize_upload of a file staged at path: the handle
finalize_upload(session_key, path) ==
    session_key \o <<"/">> \o path[Len(path)]

----------------------------------------------------------------------------
(* Actions *)

Init ==
    /\ client \in BOOLEAN
    /\ hashes = EmptyMap
    /\ sets = EmptyMap
    /\ now = 0
    /\ media = NewStorage("local", EmptyStr, {})
    /\ last = [op |-> "init"]
    /\ jobs = NoJobs

\* _persist_application: one hset of the record, then one sadd to the index
Persist ==
    \E user_id \in Users, session_key \in SessionKeys,
       position \in PositionValues, photos \in PhotoLists,
       t \in Clock, fault \in 0..2 :
        LET key == AppKey(session_key)
            record == NewRecord(user_id, position, photos, t)
        IN  /\ key \notin DOMAIN hashes
            /\ now' = t
            /\ hashes' = IF client /\ fault # 1
                         THEN HSet(hashes, key, record) ELSE hashes
            /\ sets' = IF client /\ fault = 0
                       THEN SAdd(sets, ApplicationsKey, key) ELSE sets
            /\ last' = [op |-> "persist", session_key |-> session_key,
                        user_id |-> user_id, fault |-> fault]
            /\ UNCHANGED <<jobs, client, media>>

Revoke ==
    \E user_id \in Users, session_key \in SessionKeys,
       t \in Clock, fault \in 0..2 :
        LET r == mark_application_revoked(client, hashes, session_key,
                                          user_id, t, fault)
        IN  /\ now' = t
            /\ hashes' = r.hashes
            /\ last' = [op |-> "revoke", session_key |-> session_key,
                        user_id |-> user_id, fault |-> fault, ret |-> r.ret,
                        t |-> t,
                        pre |-> HGetAll(hashes, AppKey(session_key))]
            /\ UNCHANGED <<jobs, client, sets, media>>

Update ==
    \E user_id \in Users, session_key \in SessionKeys,
       fields \in EditInputs, fault \in 0..2 :
        LET r == update_application_fields(client, hashes, session_key,
                                           user_id, fields, fault)
        IN  /\ hashes' = r.hashes
            /\ last' = [op |-> "update", session_key |-> session_key,
                        user_id |-> user_id, fault |-> fault, ret |-> r.ret,
                        fields |-> fields,
                        pre |-> HGetAll(hashes, AppKey(session_key))]
            /\ UNCHANGED <<jobs, client, sets, now, media>>

MarkReviewed ==
    \E reviewer_id \in Users, session_key \in SessionKeys,
       t \in Clock, fault \in 0..2 :
        LET r == mark_application_reviewed(client, hashes, session_key,
                                           reviewer_id, t, fault)
        IN  /\ now' = t
            /\ hashes' = r.hashes
            /\ last' = [op |-> "review", session_key |-> session_key,
                        user_id |-> reviewer_id, fault |-> fault,
                        ret |-> r.ret, t |-> t,
                        pre |-> HGetAll(hashes, AppKey(session_key))]
            /\ UNCHANGED <<jobs, client, sets, media>>

ClearReview ==
    \E session_key \in SessionKeys, fault \in 0..2 :
        LET r == clear_application_review(client, hashes, session_key, fault)
        IN  /\ hashes' = r.hashes
            /\ last' = [op |-> "clear", session_key |-> session_key,
                        fault |-> fault, ret |-> r.ret,
                        pre |-> HGetAll(hashes, AppKey(session_key))]
            /\ UNCHANGED <<jobs, client, sets, now, media>>

Next == Persist \/ Revoke \/ Update \/ MarkReviewed \/ ClearReview

Spec == Init /\ [][Next]_vars

\* keyword arguments of any supported kind: a string or None, a list whose
\* items are not in sorted order or an empty list, an int
FieldValues ==
    [position |-> {PyStr(<<"N">>), PyNone},
     photos |-> {PyList(<< <<"c">>, <<"a">> >>), PyList(<<>>)},
     contacts |-> {PyInt(7)}]

UpdateInputs ==
    UNION {{fields \in [names -> UNION {FieldValues[n] : n \in names}] :
                \A n \in names : fields[n] \in FieldValues[n]} :
           names \in SUBSET DOMAIN FieldValues}

UpdateAny ==
    \E user_id \in Users, session_key \in SessionKeys,
       fields \in UpdateInputs, fault \in 0..2 :
        LET r == update_application_fields(client, hashes, session_key,
                                           user_id, fields, fault)
        IN  /\ hashes' = r.hashes
            /\ last' = [op |-> "update", session_key |-> session_key,
                        user_id |-> user_id, fault |-> fault, ret |-> r.ret,
                        fields |-> fields,
                        pre |-> HGetAll(hashes, AppKey(session_key))]
            /\ UNCHANGED <<jobs, client, sets, now, media>>

NextUpdate == Persist \/ UpdateAny

SpecUpdate == Init /\ [][NextUpdate]_vars

----------------------------------------------------------------------------
(* The read operations applied to the stores they can meet *)

FetchKeys == {AppKey(<<"k", Digits[i + 1]>>) : i \in 1..MaxFetchKeys}

\* stored hashes: two complete records and one that has neither an owner
\* nor a creation time
FetchRecords ==
    { ("user_id" :> ToStr(1)) @@ ("created_at" :> IsoFormat(0)),
      ("user_id" :> ToStr(12)) @@ ("created_at" :> IsoFormat(1)),
      ("position" :> <<"O">>) }

FetchFaults == 0..(MaxFetchKeys + 1)

InitFetch ==
    /\ client \in BOOLEAN
    /\ \E stored \in SUBSET FetchKeys : hashes \in [stored -> FetchRecords]
    /\ \E index \in SUBSET FetchKeys :
        sets = IF index = {} THEN EmptyMap ELSE (ApplicationsKey :> index)
    /\ now = 0
    /\ media = NewStorage("local", EmptyStr, {})
    /\ last = [op |-> "init"]
    /\ jobs = NoJobs

FetchAll ==
    \E fault \in FetchFaults :
        LET r == fetch_all_submissions(client, hashes, sets, fault)
        IN  /\ last' = [op |-> "fetch_all", fault |-> fault,
                        unavailable |-> r.unavailable, items |-> r.items]
            /\ UNCHANGED <<jobs, client, hashes, sets, now, media>>

FetchUser ==
    \E user_id \in Users, fault \in FetchFaults :
        LET r == fetch_user_submissions(client, hashes, sets, user_id, fault)
        IN  /\ last' = [op |-> "fetch_user", user_id |-> user_id,
                        fault |-> fault,
                        unavailable |-> r.unavailable, items |-> r.items]
            /\ UNCHANGED <<jobs, client, hashes, sets, now, media>>

NextFetch == FetchAll \/ FetchUser

SpecFetch == InitFetch /\ [][NextFetch]_vars

----------------------------------------------------------------------------
(* The photo storage operations *)

\* "/".join(segments)
RECURSIVE JoinSlash(_)
JoinSlash(segments) ==
    IF Len(segments) = 0 THEN EmptyStr
    ELSE IF Len(segments) = 1 THEN segments[1]
    ELSE segments[1] \o <<"/">> \o JoinSlash(Tail(segments))

HandleSegments == {<<"..">>, <<"s">>, <<"f">>}

\* relative and absolute handles of up to MaxHandleSegs segments, and
\* absolute handles that name the root and paths below and above it
Handles ==
    LET lists == UNION {[1..n -> HandleSegments] : n \in 0..MaxHandleSegs}
    IN  {JoinSlash(l) : l \in lists}
        \cup {<<"/">> \o JoinSlash(l) : l \in lists}
        \cup { <<"/", "r">>, <<"/", "r", "/", "s", "/", "f">>,
               <<"/", "r", "/", "..", "/", "f">>, <<"s", "/", ".", "/", "f">> }

InitMedia ==
    /\ client = TRUE
    /\ hashes = EmptyMap
    /\ sets = EmptyMap
    /\ now = 0
    /\ \/ media = NewStorage("local", EmptyStr, {})
       \/ \E prefix \in ObjectPrefixes :
            \E objects \in SUBSET {prefix \o <<"s", "/", "f">>} :
                media = NewStorage("minio", prefix, objects)
    /\ last = [op |-> "init"]
    /\ jobs = NoJobs

\* create_session, allocate_path, the write of the photo, finalize_upload
StorePhoto ==
    \E filename \in FileNames :
        LET key == MediaSessionKey
            local == media.backend = "local"
            path == ResolveFrom(<<>>,
                        IF local THEN LocalMediaStorage_allocate_path(key, filename)
                        ELSE MinioMediaStorage_allocate_path(key, filename))
            directory == SubSeq(path, 1, Len(path) - 1)
            handle == finalize_upload(key, path)
            staged == [Mkdir(media, directory) EXCEPT !.files = @ \cup {path}]
        IN  /\ CanMkdir(media, directory)
            /\ path \notin media.dirs
            /\ media' = IF local THEN staged
                        ELSE [staged EXCEPT
                                !.bucket = @ \cup {object_name(media, handle)}]
            /\ last' = [op |-> "store_photo", handle |-> handle, path |-> path]
            /\ UNCHANGED <<jobs, client, hashes, sets, now>>

CachePhoto ==
    \E handle \in Handles :
        LET r == cache_photo(media, handle)
        IN  /\ media' = r.media
            /\ last' = [op |-> "cache_photo", handle |-> handle,
                        kind |-> r.kind, path |-> r.path,
                        downloaded |-> r.downloaded, pre |-> media]
            /\ UNCHANGED <<jobs, client, hashes, sets, now>>

\* session keys and file names handed to get_session and allocate_path
SessionKeyInputs ==
    { <<"s">>, <<"..", "/", "s">>, <<"s", "/", "..">>, <<"/", "s">> }

AllocFileNames ==
    { <<"f">>, <<"..", "/", "f">>, <<"s", "/", "f">>, <<"/", "f">>, EmptyStr }

GetSession ==
    \E session_key \in SessionKeyInputs :
        LET r == get_session(media, session_key)
        IN  /\ media' = r.media
            /\ last' = [op |-> "get_session", session_key |-> session_key,
                        kind |-> r.kind, key |-> r.key,
                        directory |-> r.directory, pre |-> media]
            /\ UNCHANGED <<jobs, client, hashes, sets, now>>

\* allocate_path for a session that create_session or get_session returned
AllocatePath ==
    \E session_key \in SessionKeyInputs, filename \in AllocFileNames :
        LET r == allocate_path(media, session_key, filename)
        IN  /\ get_session(media, session_key).kind = "session"
            /\ media' = r.media
            /\ last' = [op |-> "allocate_path", session_key |-> session_key,
                        filename |-> filename, kind |-> r.kind,
                        path |-> r.path, pre |-> media]
            /\ UNCHANGED <<jobs, client, hashes, sets, now>>

NextMedia == StorePhoto \/ CachePhoto \/ GetSession \/ AllocatePath

SpecMedia == InitMedia /\ [][NextMedia]_vars

----------------------------------------------------------------------------
(* Stored photos: finalize_upload, list_photo_handles and cache_photos of  *)
(* bot/media_storage.py                                                    *)

MaxBatch == 2       \* handles in one call of cache_photos

\* str.strip()
RECURSIVE Strip(_)
Strip(str) ==
    IF Len(str) > 0 /\ Head(str) = " " THEN Strip(Tail(str))
    ELSE IF Len(str) > 0 /\ str[Len(str)] = " "
    THEN Strip(SubSeq(str, 1, Len(str) - 1))
    ELSE str

StartsWith(str, prefix) ==
    Len(prefix) <= Len(str) /\ SubSeq(str, 1, Len(prefix)) = prefix

\* MinioMediaStorage._handle_from_object_name
handle_from_object_name(m, object) ==
    IF m.prefix # EmptyStr /\ StartsWith(object, m.prefix)
    THEN SubSeq(object, Len(m.prefix) + 1, Len(object))
    ELSE object

\* what the backend has to enumerate for a session: the entries of the
\* session directory (local), the objects under the session's prefix (MinIO)
Enumerable(m, session_key) ==
    IF m.backend = "local"
    THEN LET r == resolve_within(StorageRoot, session_key)
         IN  IF ~r.ok THEN {}
             ELSE {path \in m.files \cup m.dirs :
                     Len(path) = Len(r.path) + 1 /\ IsRelativeTo(path, r.path)}
    ELSE {object \in m.bucket :
            StartsWith(object, object_name(m, session_key \o <<"/">>))}

\* the orders in which a set can be enumerated
Enumerations(items) ==
    {order \in [1..Cardinality(items) -> items] :
        \A i, j \in 1..Cardinality(items) : order[i] = order[j] => i = j}

\* sorted(directory.iterdir()), files only
LocalMediaStorage_list_photo_handles(m, session_key, enumerated) ==
    LET r == resolve_within(StorageRoot, session_key)
        names == {enumerated[i][Len(enumerated[i])] :
                    i \in {j \in 1..Len(enumerated) : enumerated[j] \in m.files}}
        sorted == Sorted(names)
    IN  IF ~r.ok THEN <<>>
        ELSE IF ~Exists(m, r.path) THEN <<>>
        ELSE [i \in 1..Len(sorted) |-> session_key \o <<"/">> \o sorted[i]]

\* the handles in the order in which list_objects yields the objects
MinioMediaStorage_list_photo_handles(m, session_key, enumerated) ==
    [i \in 1..Len(enumerated) |-> handle_from_object_name(m, enumerated[i])]

list_photo_handles(m, session_key, enumerated) ==
    IF m.backend = "local"
    THEN LocalMediaStorage_list_photo_handles(m, session_key, enumerated)
    ELSE MinioMediaStorage_list_photo_handles(m, session_key, enumerated)

Stored(m, handle, path) == [kind |-> "handle", handle |-> handle, path |-> path, media |-> m]
NotStored(m, kind) == [kind |-> kind, handle |-> None, path |-> <<>>, media |-> m]

\* variant: the MinIO backend returns the handle without uploading the file
store_photo_no_upload(m, session_key, filename) ==
    LET session == get_session(m, session_key)
        allocated == allocate_path(session.media, session_key, filename)
        staged == ResolveFrom(<<>>, allocated.path)
        parent == SubSeq(staged, 1, Len(staged) - 1)
        written == [allocated.media EXCEPT !.files = @ \cup {staged}]
    IN  IF session.kind # "session" THEN NotStored(m, session.kind)
        ELSE IF allocated.kind # "path" THEN NotStored(allocated.media, allocated.kind)
        ELSE IF staged = <<>> \/ parent \notin allocated.media.dirs
                \/ staged \in allocated.media.dirs
        THEN NotStored(allocated.media, "OSError")
        ELSE Stored(written, finalize_upload(session_key, allocated.path), staged)

\* a photo is stored as get_photos and the tests do it: get_session (or
\* create_session), allocate_path, the write of the file at the path, and
\* finalize_upload, which on the MinIO backend uploads the file as the
\* object of the handle and on the local backend finds it in place
store_photo(m, session_key, filename) ==
    LET session == get_session(m, session_key)
        allocated == allocate_path(session.media, session_key, filename)
        staged == ResolveFrom(<<>>, allocated.path)
        parent == SubSeq(staged, 1, Len(staged) - 1)
        written == [allocated.media EXCEPT !.files = @ \cup {staged}]
        handle == finalize_upload(session_key, allocated.path)
    IN  IF session.kind # "session" THEN NotStored(m, session.kind)
        ELSE IF allocated.kind # "path" THEN NotStored(allocated.media, allocated.kind)
        ELSE IF staged = <<>> \/ parent \notin allocated.media.dirs
                \/ staged \in allocated.media.dirs
        THEN NotStored(allocated.media, "OSError")
        ELSE IF m.backend = "local" THEN Stored(written, handle, staged)
        ELSE Stored([written EXCEPT !.bucket = @ \cup {object_name(m, handle)}],
                    handle, staged)

\* ".." in Path(normalized).parts
Suspicious(normalized) ==
    \E i \in 1..Len(Parts(normalized)) : Parts(normalized)[i] = <<"..">>

\* the loop of cache_photos over the handles that are left; an exception of
\* cache_photo other than FileNotFoundError leaves the loop and the call
RECURSIVE CachePhotosLoop(_, _, _, _)
CachePhotosLoop(m, handles, seen, cached) ==
    IF handles = <<>> THEN [kind |-> "list", paths |-> cached, media |-> m]
    ELSE LET normalized == Strip(Head(handles))
             r == cache_photo(m, normalized)
         IN  IF normalized = EmptyStr \/ normalized \in seen
             THEN CachePhotosLoop(m, Tail(handles), seen, cached)
             ELSE IF Suspicious(normalized)
             THEN CachePhotosLoop(m, Tail(handles), seen, cached)
             ELSE IF r.kind = "FileNotFoundError"
             THEN CachePhotosLoop(r.media, Tail(handles),
                                  seen \cup {normalized}, cached)
             ELSE IF r.kind # "path"
             THEN [kind |-> r.kind, paths |-> <<>>, media |-> r.media]
             ELSE CachePhotosLoop(r.media, Tail(handles), seen \cup {normalized},
                                  IF Exists(r.media, r.path)
                                  THEN Append(cached, r.path) ELSE cached)

cache_photos(m, handles) == CachePhotosLoop(m, handles, {}, <<>>)

\* the photos that are stored: two of one session, one of them also under
\* a name with a directory part, and one of another session
StoreInputs ==
    { <<(<<"s">>), (<<"b">>)>>, <<(<<"s">>), (<<"a">>)>>,
      <<(<<"s">>), (<<"..", "/", "b">>)>>, <<(<<"k">>), (<<"b">>)>> }

PhotoSessions == {input[1] : input \in StoreInputs}

\* handles given to cache_photos: empty, padded, stored or not, with a
\* parent segment, absolute, and one that lies below another handle
BatchHandles ==
    { EmptyStr, <<" ", "s", "/", "b">>, <<"s", "/", "b">>,
      <<"s", "/", "..", "/", "s", "/", "b">>,
      <<"/", "f">>, <<"s", "/", "b", "/", "a">> }

Batches == UNION {[1..n -> BatchHandles] : n \in 0..MaxBatch}

\* the storages the photos are stored in
NewStorages ==
    {NewStorage("local", EmptyStr, {})}
    \cup {NewStorage("minio", prefix, objects) :
            prefix \in ObjectPrefixes, objects \in SUBSET {<<"s", "/", "c">>}}

InitPhotos ==
    /\ client = TRUE
    /\ hashes = EmptyMap
    /\ sets = EmptyMap
    /\ now = 0
    /\ media \in NewStorages
    /\ last = [op |-> "init"]
    /\ jobs = NoJobs

StoreUpload ==
    \E input \in StoreInputs :
        LET r == store_photo(media, input[1], input[2])
        IN  /\ media' = r.media
            /\ last' = [op |-> "store", session_key |-> input[1],
                        filename |-> input[2], kind |-> r.kind,
                        handle |-> r.handle]
            /\ UNCHANGED <<jobs, client, hashes, sets, now>>

ListPhotoHandles ==
    \E session_key \in PhotoSessions :
        \E enumerated \in Enumerations(Enumerable(media, session_key)) :
            /\ last' = [op |-> "list", session_key |-> session_key,
                        ret |-> list_photo_handles(media, session_key, enumerated)]
            /\ UNCHANGED <<jobs, client, hashes, sets, now, media>>

\* cache_photo of one handle, between the other operations
CacheStored ==
    \E handle \in BatchHandles :
        /\ media' = cache_photo(media, handle).media
        /\ last' = [op |-> "cache", handle |-> handle,
                    kind |-> cache_photo(media, handle).kind]
        /\ UNCHANGED <<jobs, client, hashes, sets, now>>

NextPhotos == StoreUpload \/ ListPhotoHandles \/ CacheStored

SpecPhotos == InitPhotos /\ [][NextPhotos]_vars

\* cache_photos is applied to storages that are new or hold the photo s/b
InitBatch ==
    /\ client = TRUE
    /\ hashes = EmptyMap
    /\ sets = EmptyMap
    /\ now = 0
    /\ \E m \in NewStorages :
        media \in {m, store_photo(m, <<"s">>, <<"b">>).media}
    /\ last = [op |-> "init"]
    /\ jobs = NoJobs

CachePhotos ==
    \E handles \in Batches :
        LET r == cache_photos(media, handles)
        IN  /\ media' = r.media
            /\ last' = [op |-> "cache_photos", handles |-> handles,
                        kind |-> r.kind, paths |-> r.paths, pre |-> media]
            /\ UNCHANGED <<jobs, client, hashes, sets, now>>

NextBatch == CachePhotos

SpecBatch == InitBatch /\ [][NextBatch]_vars

----------------------------------------------------------------------------
(* Submission sessions: ApplicationStore of bot/storage.py *)

MaxPhotos == 2      \* photos appended to one session

\* pathlib.Path(str) and str(path)
PyPath(str) == [t |-> "path", absolute |-> IsAbsolute(str), parts |-> Parts(str)]
PathStr(path) ==
    IF path.absolute THEN <<"/">> \o JoinSlash(path.parts)
    ELSE IF Len(path.parts) = 0 THEN <<".">>
    ELSE JoinSlash(path.parts)

PyError == [t |-> "error"]

\* int(str) of a string of decimal digits
RECURSIVE ParseInt(_)
ParseInt(str) ==
    IF Len(str) = 0 THEN 0
    ELSE ParseInt(SubSeq(str, 1, Len(str) - 1)) * 10
         + ((CHOOSE i \in 1..10 : Digits[i] = str[Len(str)]) - 1)

\* json.dumps of a list of str: ["a", "b"], with \" and \\ escaped
RECURSIVE JsonEscape(_)
JsonEscape(str) ==
    IF Len(str) = 0 THEN EmptyStr
    ELSE (IF Head(str) \in {"\"", "\\"} THEN <<"\\", Head(str)>> ELSE <<Head(str)>>)
         \o JsonEscape(Tail(str))

RECURSIVE JsonJoin(_)
JsonJoin(items) ==
    IF Len(items) = 0 THEN EmptyStr
    ELSE <<"\"">> \o JsonEscape(items[1]) \o <<"\"">>
         \o (IF Len(items) = 1 THEN EmptyStr ELSE <<",", " ">> \o JsonJoin(Tail(items)))

JsonDumps(items) == <<"[">> \o JsonJoin(items) \o <<"]">>

\* json.loads of such a text: ok is false where the code raises
JsonFail == [ok |-> FALSE, value |-> <<>>, rest |-> <<>>]

\* the characters of a string up to its closing quote
RECURSIVE JsonString(_, _)
JsonString(str, acc) ==
    IF Len(str) = 0 THEN JsonFail
    ELSE IF Head(str) = "\"" THEN [ok |-> TRUE, value |-> acc, rest |-> Tail(str)]
    ELSE IF Head(str) = "\\"
    THEN IF Len(str) < 2 THEN JsonFail
         ELSE JsonString(Tail(Tail(str)), Append(acc, str[2]))
    ELSE JsonString(Tail(str), Append(acc, Head(str)))

RECURSIVE JsonItems(_, _)
JsonItems(str, acc) ==
    IF Len(str) = 0 \/ Head(str) # "\"" THEN JsonFail
    ELSE LET item == JsonString(Tail(str), EmptyStr)
         IN IF ~item.ok THEN JsonFail
            ELSE IF item.rest = <<"]">>
            THEN [ok |-> TRUE, value |-> Append(acc, item.value), rest |-> <<>>]
            ELSE IF Len(item.rest) > 2 /\ item.rest[1] = "," /\ item.rest[2] = " "
            THEN JsonItems(SubSeq(item.rest, 3, Len(item.rest)),
                           Append(acc, item.value))
            ELSE JsonFail

JsonLoads(str) ==
    IF str = <<"[", "]">> THEN [ok |-> TRUE, value |-> <<>>, rest |-> <<>>]
    ELSE IF Len(str) > 0 /\ Head(str) = "[" THEN JsonItems(Tail(str), <<>>)
    ELSE JsonFail

LIST_FIELDS == {"photos"}
INT_FIELDS == {"_photo_prompt_message_id"}

\* str(value)
StrOf(value) ==
    IF value.t = "int" THEN ToStr(value.v)
    ELSE IF value.t = "path" THEN PathStr(value)
    ELSE value.v

\* ApplicationStore._serialize, for one field
serialize_value(field, value) ==
    IF field \in LIST_FIELDS
    THEN JsonDumps([i \in 1..Len(value.v) |-> PathStr(value.v[i])])
    ELSE IF field \in INT_FIELDS
    THEN IF value.t = "none" THEN EmptyStr ELSE StrOf(value)
    ELSE IF value.t = "path" THEN PathStr(value)
    ELSE IF value.t = "none" THEN EmptyStr
    ELSE StrOf(value)

serialize(data) == [f \in DOMAIN data |-> serialize_value(f, data[f])]

\* variant: the message id is read back as the stored text
deserialize_value_int_as_text(field, value) ==
    IF field \in LIST_FIELDS
    THEN IF value = EmptyStr THEN PyList(<<>>)
         ELSE LET parsed == JsonLoads(value)
              IN IF ~parsed.ok THEN PyError
                 ELSE PyList([i \in 1..Len(parsed.value) |-> PyPath(parsed.value[i])])
    ELSE IF field = "session_dir"
    THEN IF value = EmptyStr THEN PyNone ELSE PyPath(value)
    ELSE PyStr(value)

\* ApplicationStore._deserialize, for one field
deserialize_value(field, value) ==
    IF field \in LIST_FIELDS
    THEN IF value = EmptyStr THEN PyList(<<>>)
         ELSE LET parsed == JsonLoads(value)
              IN IF ~parsed.ok THEN PyError
                 ELSE PyList([i \in 1..Len(parsed.value) |-> PyPath(parsed.value[i])])
    ELSE IF field \in INT_FIELDS
    THEN IF value = EmptyStr THEN PyNone ELSE PyInt(ParseInt(value))
    ELSE IF field = "session_dir"
    THEN IF value = EmptyStr THEN PyNone ELSE PyPath(value)
    ELSE PyStr(value)

deserialize(raw) == [f \in DOMAIN raw |-> deserialize_value(f, raw[f])]

\* InMemoryValkey.delete
Delete(h, name) == [k \in DOMAIN h \ {name} |-> h[k]]

SessionKey(user_id) ==
    Prefix \o <<":">> \o <<"session">> \o <<":">> \o ToStr(user_id)

\* dict.setdefault(field, value)
SetDefault(mapping, field, value) ==
    IF field \in DOMAIN mapping THEN mapping ELSE (field :> value) @@ mapping

\* variant: the earlier hash is not deleted first
ApplicationStore_init_session_merge(h, user_id, data) ==
    HSet(h, SessionKey(user_id), serialize(data))

ApplicationStore_init_session(h, user_id, data) ==
    LET key == SessionKey(user_id)
    IN  HSet(Delete(h, key), key, serialize(data))

\* variant: only the hash of a live session is written
ApplicationStore_set_fields_live(h, user_id, fields) ==
    IF fields = EmptyMap \/ HGetAll(h, SessionKey(user_id)) = EmptyMap THEN h
    ELSE HSet(h, SessionKey(user_id), serialize(fields))

ApplicationStore_set_fields(h, user_id, fields) ==
    IF fields = EmptyMap THEN h
    ELSE HSet(h, SessionKey(user_id), serialize(fields))

\* variant: photos is not defaulted
ApplicationStore_get_raw(h, user_id) ==
    LET raw == HGetAll(h, SessionKey(user_id))
    IN  IF raw = EmptyMap THEN EmptyMap ELSE deserialize(raw)

ApplicationStore_get(h, user_id) ==
    LET raw == HGetAll(h, SessionKey(user_id))
    IN  IF raw = EmptyMap THEN EmptyMap
        ELSE SetDefault(deserialize(raw), "photos", PyList(<<>>))

ApplicationStore_append_photo(h, user_id, photo_path) ==
    LET session == ApplicationStore_get(h, user_id)
        photos == IF "photos" \in DOMAIN session THEN session["photos"].v ELSE <<>>
    IN  ApplicationStore_set_fields(h, user_id,
            "photos" :> PyList(Append(photos, photo_path)))

ApplicationStore_clear(h, user_id) == Delete(h, SessionKey(user_id))

\* the data of the sessions that are started: what the /new command writes,
\* a session without photos, and no data at all
SessionData ==
    { ("photos" :> PyList(<<>>))
        @@ ("session_dir" :> PyPath(<<"r", "/", "s">>))
        @@ ("session_key" :> PyStr(<<"k", "1">>)),
      ("position" :> PyStr(<<"O">>)) @@ ("session_dir" :> PyNone),
      EmptyMap }

\* the keyword arguments given to set_fields
SessionFields ==
    { ("_photo_prompt_message_id" :> PyInt(17)),
      ("_photo_prompt_message_id" :> PyNone),
      ("photos" :> PyList(<<>>)),
      EmptyMap }

\* a photo path whose name needs escaping in JSON
PhotoPaths == {PyPath(<<"r", "/", "s", "/", "\"", "\\">>)}

InitStore ==
    /\ client = TRUE
    /\ hashes = EmptyMap
    /\ sets = EmptyMap
    /\ now = 0
    /\ media = NewStorage("local", EmptyStr, {})
    /\ last = [op |-> "init"]
    /\ jobs = NoJobs

SessionInit ==
    \E user_id \in Users, data \in SessionData :
        /\ hashes' = ApplicationStore_init_session(hashes, user_id, data)
        /\ last' = [op |-> "init_session", user_id |-> user_id, data |-> data,
                    pre |-> ApplicationStore_get(hashes, user_id)]
        /\ UNCHANGED <<jobs, client, sets, now, media>>

SessionSetFields ==
    \E user_id \in Users, fields \in SessionFields :
        /\ hashes' = ApplicationStore_set_fields(hashes, user_id, fields)
        /\ last' = [op |-> "set_fields", user_id |-> user_id, data |-> fields,
                    pre |-> ApplicationStore_get(hashes, user_id)]
        /\ UNCHANGED <<jobs, client, sets, now, media>>

SessionAppendPhoto ==
    \E user_id \in Users, photo_path \in PhotoPaths :
        LET session == ApplicationStore_get(hashes, user_id)
        IN  /\ ("photos" \in DOMAIN session) => Len(session["photos"].v) < MaxPhotos
            /\ hashes' = ApplicationStore_append_photo(hashes, user_id, photo_path)
            /\ last' = [op |-> "append_photo", user_id |-> user_id,
                        photo_path |-> photo_path, pre |-> session]
            /\ UNCHANGED <<jobs, client, sets, now, media>>

SessionGet ==
    \E user_id \in Users :
        /\ last' = [op |-> "get", user_id |-> user_id,
                    ret |-> ApplicationStore_get(hashes, user_id)]
        /\ UNCHANGED <<jobs, client, hashes, sets, now, media>>

SessionClear ==
    \E user_id \in Users :
        /\ hashes' = ApplicationStore_clear(hashes, user_id)
        /\ last' = [op |-> "clear_session", user_id |-> user_id,
                    pre |-> ApplicationStore_get(hashes, user_id)]
        /\ UNCHANGED <<jobs, client, sets, now, media>>

NextSession ==
    \/ SessionInit \/ SessionSetFields \/ SessionAppendPhoto
    \/ SessionGet \/ SessionClear

SpecSession == InitStore /\ [][NextSession]_vars

----------------------------------------------------------------------------
(* ApplicationStore on a client whose calls can raise ValkeyError.  The     *)
(* methods have no except clause: the exception of call number fault leaves *)
(* the method, and the calls made before it have taken effect.              *)

Returned(h, ret) == [raised |-> FALSE, hashes |-> h, ret |-> ret]
Propagated(h) == [raised |-> TRUE, hashes |-> h, ret |-> None]

\* delete is call 1, hset call 2
init_session(h, user_id, data, fault) ==
    LET key == SessionKey(user_id)
    IN  IF fault = 1 THEN Propagated(h)
        ELSE IF fault = 2 THEN Propagated(Delete(h, key))
        ELSE Returned(ApplicationStore_init_session(h, user_id, data), None)

\* hset is call 1; there is no call when fields is empty
set_fields(h, user_id, fields, fault) ==
    IF fields = EmptyMap THEN Returned(h, None)
    ELSE IF fault = 1 THEN Propagated(h)
    ELSE Returned(ApplicationStore_set_fields(h, user_id, fields), None)

\* hgetall is call 1
get(h, user_id, fault) ==
    IF fault = 1 THEN Propagated(h)
    ELSE Returned(h, ApplicationStore_get(h, user_id))

\* the hgetall of get is call 1, the hset of set_fields call 2
append_photo(h, user_id, photo_path, fault) ==
    LET session == ApplicationStore_get(h, user_id)
        photos == IF "photos" \in DOMAIN session THEN session["photos"].v ELSE <<>>
    IN  IF fault = 1 THEN Propagated(h)
        ELSE IF fault = 2 THEN Propagated(h)
        ELSE Returned(ApplicationStore_append_photo(h, user_id, photo_path),
                      PyList(Append(photos, photo_path)))

\* delete is call 1
clear(h, user_id, fault) ==
    IF fault = 1 THEN Propagated(h)
    ELSE Returned(ApplicationStore_clear(h, user_id), None)

SessionCall(op, user_id, fault, r) ==
    /\ hashes' = r.hashes
    /\ last' = [op |-> op, user_id |-> user_id, fault |-> fault,
                raised |-> r.raised, ret |-> r.ret,
                pre |-> ApplicationStore_get(hashes, user_id)]
    /\ UNCHANGED <<jobs, client, sets, now, media>>

RaisingInit ==
    \E user_id \in Users, data \in SessionData, fault \in 0..2 :
        SessionCall("init_session", user_id, fault,
                    init_session(hashes, user_id, data, fault))

RaisingSetFields ==
    \E user_id \in Users, fields \in SessionFields, fault \in 0..1 :
        SessionCall("set_fields", user_id, fault,
                    set_fields(hashes, user_id, fields, fault))

RaisingAppendPhoto ==
    \E user_id \in Users, photo_path \in PhotoPaths, fault \in 0..2 :
        LET session == ApplicationStore_get(hashes, user_id)
        IN  /\ ("photos" \in DOMAIN session) => Len(session["photos"].v) < MaxPhotos
            /\ SessionCall("append_photo", user_id, fault,
                           append_photo(hashes, user_id, photo_path, fault))

RaisingGet ==
    \E user_id \in Users, fault \in 0..1 :
        SessionCall("get", user_id, fault, get(hashes, user_id, fault))

RaisingClear ==
    \E user_id \in Users, fault \in 0..1 :
        SessionCall("clear_session", user_id, fault, clear(hashes, user_id, fault))

NextRaising ==
    \/ RaisingInit \/ RaisingSetFields \/ RaisingAppendPhoto
    \/ RaisingGet \/ RaisingClear

SpecRaising == InitStore /\ [][NextRaising]_vars

----------------------------------------------------------------------------
(* The submission conversation: bot/commands.py and bot/workflow.py *)

WorkflowUsers == {12}
ContactTexts == {<<"@">>}
Uuids == {<<"u">>}                  \* uuid4().hex
UsersKey == Prefix \o <<":">> \o <<"users">>
UserApplicationsKey(user_id) ==
    Prefix \o <<":">> \o <<"user">> \o <<":">> \o ToStr(user_id)
           \o <<":">> \o <<"applications">>

\* record_active_user: one sadd, a fault is logged
record_active_user(c, s, user_id, faulty) ==
    IF ~c \/ faulty THEN s ELSE SAdd(s, UsersKey, ToStr(user_id))

\* the session key the /new command generates for a user
NewSessionKey(user_id) == ToStr(user_id) \o <<"_", "a">>

\* user_data.get(field, "") of a text field
TextOf(user_data, field) ==
    IF field \in DOMAIN user_data THEN user_data[field].v ELSE EmptyStr

\* the record _persist_application builds from the session (username,
\* names, condition, size, material, description and price are mirrored
\* like position and left out)
SubmissionRecord(user_id, user_data, uuid, t) ==
    LET session_key == TextOf(user_data, "session_key")
        photos == IF "photos" \in DOMAIN user_data THEN user_data["photos"].v
                  ELSE <<>>
        session_dir == IF "session_dir" \in DOMAIN user_data
                       THEN user_data["session_dir"] ELSE PyNone
    IN  ("session_key" :> (IF session_key # EmptyStr THEN session_key ELSE uuid))
        @@ ("user_id" :> ToStr(user_id))
        @@ ("position" :> TextOf(user_data, "position"))
        @@ ("contacts" :> TextOf(user_data, "contacts"))
        @@ ("photos" :> Join([i \in 1..Len(photos) |-> PathStr(photos[i])]))
        @@ ("session_dir" :> (IF session_dir.t = "path" THEN PathStr(session_dir)
                              ELSE EmptyStr))
        @@ ("created_at" :> IsoFormat(t))

\* _persist_application: hset of the record (call 3 of get_contacts), then
\* sadd to the applications index (call 4); an exception ends it quietly
persist_application(h, s, user_id, user_data, uuid, t, fault) ==
    LET record == SubmissionRecord(user_id, user_data, uuid, t)
        key == AppKey(record["session_key"])
    IN  IF fault = 3 THEN [hashes |-> h, sets |-> s, key |-> key]
        ELSE IF fault = 4 THEN [hashes |-> HSet(h, key, record), sets |-> s, key |-> key]
        ELSE [hashes |-> HSet(h, key, record),
              sets |-> SAdd(s, ApplicationsKey, key), key |-> key]

Handled(ret, h, s, key) == [ret |-> ret, hashes |-> h, sets |-> s, key |-> key]

\* variant: the session is kept after the record is stored
get_contacts_keep_session(h, s, user_id, text, uuid, t, fault) ==
    LET user_data == ApplicationStore_get(h, user_id)
        with_contacts == ApplicationStore_set_fields(h, user_id, "contacts" :> PyStr(text))
        persisted == persist_application(with_contacts, s, user_id,
                        ("contacts" :> PyStr(text)) @@ user_data, uuid, t, fault)
    IN  IF fault = 1 THEN Handled("raised", h, s, None)
        ELSE IF user_data = EmptyMap THEN Handled("session_missing", h, s, None)
        ELSE IF fault = 2 THEN Handled("raised", h, s, None)
        ELSE Handled("end", persisted.hashes, persisted.sets, persisted.key)

\* get_contacts: store.get (call 1), store.set_fields (call 2),
\* _persist_application (calls 3 and 4), store.clear (call 5); a store call
\* that raises outside _persist_application ends the handler there
get_contacts(h, s, user_id, text, uuid, t, fault) ==
    LET user_data == ApplicationStore_get(h, user_id)
        with_contacts == ApplicationStore_set_fields(h, user_id, "contacts" :> PyStr(text))
        persisted == persist_application(with_contacts, s, user_id,
                        ("contacts" :> PyStr(text)) @@ user_data, uuid, t, fault)
    IN  IF fault = 1 THEN Handled("raised", h, s, None)
        ELSE IF user_data = EmptyMap THEN Handled("session_missing", h, s, None)
        ELSE IF fault = 2 THEN Handled("raised", h, s, None)
        ELSE IF fault = 5
        THEN Handled("raised", persisted.hashes, persisted.sets, persisted.key)
        ELSE Handled("end", ApplicationStore_clear(persisted.hashes, user_id),
                     persisted.sets, persisted.key)

\* cancel: a reply and the end of the conversation; no store call
cancel(h, user_id) == h

\* the /new command: record_active_user, then init_session with a new key
NewSubmission ==
    \E user_id \in WorkflowUsers :
        LET session_key == NewSessionKey(user_id)
            data == ("photos" :> PyList(<<>>))
                    @@ ("session_dir" :> PyPath(<<"r", "/">> \o session_key))
                    @@ ("session_key" :> PyStr(session_key))
        IN  /\ AppKey(session_key) \notin DOMAIN hashes
            /\ sets' = SAdd(sets, UsersKey, ToStr(user_id))
            /\ hashes' = ApplicationStore_init_session(hashes, user_id, data)
            /\ last' = [op |-> "new", user_id |-> user_id,
                        pre |-> ApplicationStore_get(hashes, user_id)]
            /\ UNCHANGED <<jobs, client, now, media>>

GetPosition ==
    \E user_id \in WorkflowUsers, text \in PositionValues :
        /\ hashes' = ApplicationStore_set_fields(hashes, user_id,
                                                 "position" :> PyStr(text))
        /\ last' = [op |-> "get_position", user_id |-> user_id,
                    pre |-> ApplicationStore_get(hashes, user_id)]
        /\ UNCHANGED <<jobs, client, sets, now, media>>

\* get_photos with a photo: append_photo, then the prompt's message id
GetPhotos ==
    \E user_id \in WorkflowUsers, message_id \in {17} :
        LET user_data == ApplicationStore_get(hashes, user_id)
            appended == ApplicationStore_append_photo(hashes, user_id,
                PyPath(PathStr(user_data["session_dir"]) \o <<"/", "p">>))
        IN  /\ user_data # EmptyMap
            /\ "session_dir" \in DOMAIN user_data
            /\ user_data["session_dir"] # PyNone
            /\ Len(user_data["photos"].v) < MaxPhotos
            /\ hashes' = ApplicationStore_set_fields(appended, user_id,
                            "_photo_prompt_message_id" :> PyInt(message_id))
            /\ last' = [op |-> "get_photos", user_id |-> user_id, pre |-> user_data]
            /\ UNCHANGED <<jobs, client, sets, now, media>>

GetContacts ==
    \E user_id \in WorkflowUsers, text \in ContactTexts, uuid \in Uuids,
       t \in Clock, fault \in 0..5 :
        LET r == get_contacts(hashes, sets, user_id, text, uuid, t, fault)
        IN  /\ now' = t
            /\ hashes' = r.hashes
            /\ sets' = r.sets
            /\ last' = [op |-> "get_contacts", user_id |-> user_id,
                        text |-> text, fault |-> fault, ret |-> r.ret,
                        key |-> r.key,
                        pre |-> ApplicationStore_get(hashes, user_id)]
            /\ UNCHANGED <<jobs, client, media>>

Cancel ==
    \E user_id \in WorkflowUsers :
        /\ hashes' = cancel(hashes, user_id)
        /\ last' = [op |-> "cancel", user_id |-> user_id,
                    pre |-> ApplicationStore_get(hashes, user_id)]
        /\ UNCHANGED <<jobs, client, sets, now, media>>

NextWorkflow == NewSubmission \/ GetPosition \/ GetPhotos \/ GetContacts \/ Cancel

SpecWorkflow == InitStore /\ [][NextWorkflow]_vars

----------------------------------------------------------------------------
(* The photo step of the submission conversation.  The state of the        *)
(* ConversationHandler is what the last handler returned; it is kept in    *)
(* last.state.  One user converses.  The steps after the size step are not *)
(* modelled: from MATERIAL on the conversation can only be cancelled.      *)

RequiredPhotos == 2     \* if count < 2
PhotoLimit == 5         \* elif count < 5

\* the texts and button choices the user sends
GateTexts == {<<"N">>, <<"O">>}

PhotoCount(h, user_id) ==
    LET user_data == ApplicationStore_get(h, user_id)
    IN  IF user_data = EmptyMap THEN 0 ELSE Len(user_data["photos"].v)

Step(ret, h) == [ret |-> ret, hashes |-> h]

get_position(h, user_id, text) ==
    Step("CONDITION", ApplicationStore_set_fields(h, user_id, "position" :> PyStr(text)))

get_condition(h, user_id, condition_text) ==
    Step("PHOTOS", ApplicationStore_set_fields(h, user_id,
                        ("condition" :> PyStr(condition_text))
                        @@ ("photos" :> PyList(<<>>))))

\* get_photos for a message that carries a photo, which is what the filter
\* of the PHOTOS state lets through; the prompt that follows the photo
\* stores its message id
get_photos(h, user_id, message_id) ==
    LET user_data == ApplicationStore_get(h, user_id)
        session_dir == IF "session_dir" \in DOMAIN user_data
                       THEN user_data["session_dir"] ELSE PyNone
        photo_index == Len(user_data["photos"].v) + 1
        saved_path == PyPath(PathStr(session_dir)
                             \o <<"/", "p", Digits[photo_index + 1]>>)
        appended == ApplicationStore_append_photo(h, user_id, saved_path)
        count == PhotoCount(appended, user_id)
        prompted == ApplicationStore_set_fields(appended, user_id,
                        "_photo_prompt_message_id" :> PyInt(message_id))
    IN  IF user_data = EmptyMap THEN Step("END", h)
        ELSE IF session_dir = PyNone THEN Step("END", h)
        ELSE IF count < RequiredPhotos THEN Step("PHOTOS", prompted)
        ELSE IF count < PhotoLimit THEN Step("PHOTOS", prompted)
        ELSE Step("SIZE", prompted)

\* skip_photos: a reply, and the size step
skip_photos(h) == Step("SIZE", h)

get_size(h, user_id, text) ==
    Step("MATERIAL", ApplicationStore_set_fields(h, user_id, "size" :> PyStr(text)))

InitGate ==
    /\ client = TRUE
    /\ hashes = EmptyMap
    /\ sets = EmptyMap
    /\ now = 0
    /\ media = NewStorage("local", EmptyStr, {})
    /\ last = [op |-> "init", state |-> "END", photos |-> 0]
    /\ jobs = NoJobs

Handle(op, user_id, r) ==
    /\ hashes' = r.hashes
    /\ last' = [op |-> op, state |-> r.ret, photos |-> PhotoCount(hashes, user_id)]
    /\ UNCHANGED <<jobs, client, now, media>>

\* the entry point /new: record_active_user, then init_session
StepNew ==
    \E user_id \in WorkflowUsers :
        LET session_key == NewSessionKey(user_id)
            data == ("photos" :> PyList(<<>>))
                    @@ ("session_dir" :> PyPath(<<"r", "/">> \o session_key))
                    @@ ("session_key" :> PyStr(session_key))
        IN  /\ last.state = "END"
            /\ sets' = record_active_user(client, sets, user_id, FALSE)
            /\ Handle("new", user_id,
                      Step("POSITION", ApplicationStore_init_session(hashes, user_id, data)))

StepPosition ==
    \E user_id \in WorkflowUsers, text \in GateTexts :
        /\ last.state = "POSITION"
        /\ Handle("get_position", user_id, get_position(hashes, user_id, text))
        /\ UNCHANGED sets

StepCondition ==
    \E user_id \in WorkflowUsers, condition_text \in GateTexts :
        /\ last.state = "CONDITION"
        /\ Handle("get_condition", user_id,
                  get_condition(hashes, user_id, condition_text))
        /\ UNCHANGED sets

StepPhoto ==
    \E user_id \in WorkflowUsers, message_id \in {17} :
        /\ last.state = "PHOTOS"
        /\ Handle("get_photos", user_id, get_photos(hashes, user_id, message_id))
        /\ UNCHANGED sets

\* a text message that matches the skip keyword
StepSkip ==
    \E user_id \in WorkflowUsers :
        /\ last.state = "PHOTOS"
        /\ Handle("skip_photos", user_id, skip_photos(hashes))
        /\ UNCHANGED sets

StepSize ==
    \E user_id \in WorkflowUsers, text \in GateTexts :
        /\ last.state = "SIZE"
        /\ Handle("get_size", user_id, get_size(hashes, user_id, text))
        /\ UNCHANGED sets

\* the fallback /cancel of a conversation that is under way
StepCancel ==
    \E user_id \in WorkflowUsers :
        /\ last.state # "END"
        /\ Handle("cancel", user_id, Step("END", cancel(hashes, user_id)))
        /\ UNCHANGED sets

NextGate ==
    \/ StepNew \/ StepPosition \/ StepCondition \/ StepPhoto
    \/ StepSkip \/ StepSize \/ StepCancel

SpecGate == InitGate /\ [][NextGate]_vars

----------------------------------------------------------------------------
(* Broadcast audiences: recipients_for_audience of bot/admin.py *)

(* Time is counted in days.  A timestamp text is two digits of local time, *)
(* alone (naive) or followed by "+" and the digit of its UTC offset.       *)

MaxAudienceKeys == 2    \* keys of the stores the audiences are resolved on
WindowDays == 30        \* timedelta(days=30)
AudienceNow == 50       \* the day on which the audiences are resolved

IsDigit(ch) == \E i \in 1..10 : Digits[i] = ch

IsDigits(str) == Len(str) > 0 /\ \A i \in 1..Len(str) : IsDigit(str[i])

\* datetime.fromisoformat: ok is false where it raises ValueError; aware is
\* false for a naive timestamp (tzinfo is None)
fromisoformat(str) ==
    IF Len(str) = 2 /\ IsDigits(str)
    THEN [ok |-> TRUE, local |-> ParseInt(str), aware |-> FALSE, offset |-> 0]
    ELSE IF Len(str) = 4 /\ IsDigits(SubSeq(str, 1, 2)) /\ str[3] = "+" /\ IsDigit(str[4])
    THEN [ok |-> TRUE, local |-> ParseInt(SubSeq(str, 1, 2)), aware |-> TRUE,
          offset |-> ParseInt(<<str[4]>>)]
    ELSE [ok |-> FALSE, local |-> 0, aware |-> FALSE, offset |-> 0]

\* the instant of a parsed timestamp, a naive one being given tzinfo=UTC
InstantOf(timestamp) ==
    LET utc == IF timestamp.aware THEN timestamp
               ELSE [timestamp EXCEPT !.aware = TRUE, !.offset = 0]
    IN  utc.local - utc.offset

\* list_active_users: the members of {prefix}:users as ints
list_active_users(c, s, faulty) ==
    IF ~c \/ faulty THEN {}
    ELSE {ParseInt(item) : item \in SMembers(s, UsersKey)}

\* submission.get("user_id", "0")
OwnerId(submission) ==
    IF "user_id" \in DOMAIN submission THEN submission["user_id"] ELSE <<"0">>

\* variant: a submission whose timestamp does not parse counts as recent
RecentOwners_keep_unparsable(submissions, cutoff) ==
    {ParseInt(OwnerId(submissions[i])) :
        i \in {j \in 1..Len(submissions) :
                /\ (fromisoformat(CreatedAt(submissions[j])).ok
                    => InstantOf(fromisoformat(CreatedAt(submissions[j]))) >= cutoff)
                /\ IsDigits(OwnerId(submissions[j]))}}

\* the owners of the submissions that are not older than the cutoff
RecentOwners(submissions, cutoff) ==
    {ParseInt(OwnerId(submissions[i])) :
        i \in {j \in 1..Len(submissions) :
                /\ fromisoformat(CreatedAt(submissions[j])).ok
                /\ InstantOf(fromisoformat(CreatedAt(submissions[j]))) >= cutoff
                /\ IsDigits(OwnerId(submissions[j]))}}

\* variant: the cutoff is not applied
recipients_for_audience_no_cutoff(c, h, s, audience, t, fault) ==
    IF audience = <<"all">> THEN list_active_users(c, s, fault = 1)
    ELSE IF audience = <<"recent">>
    THEN RecentOwners(fetch_all_submissions(c, h, s, fault).items, 0)
    ELSE {}

recipients_for_audience(c, h, s, audience, t, fault) ==
    IF audience = <<"all">> THEN list_active_users(c, s, fault = 1)
    ELSE IF audience = <<"recent">>
    THEN LET cutoff == t - WindowDays
             submissions == fetch_all_submissions(c, h, s, fault)
         IN  IF submissions.unavailable \/ submissions.items = <<>> THEN {}
             ELSE RecentOwners(submissions.items, cutoff)
    ELSE {}

AudienceKeys == {AppKey(<<"k", Digits[i + 1]>>) : i \in 1..MaxAudienceKeys}

\* stored records: 2 days old, 45 days old, exactly 30 days old with a
\* naive timestamp, 31 days old once its offset is taken off, and one whose
\* timestamp does not parse
AudienceRecords ==
    { ("user_id" :> ToStr(1)) @@ ("created_at" :> <<"4", "8", "+", "0">>),
      ("user_id" :> ToStr(12)) @@ ("created_at" :> <<"0", "5", "+", "0">>),
      ("user_id" :> ToStr(12)) @@ ("created_at" :> <<"2", "0">>),
      ("user_id" :> ToStr(1)) @@ ("created_at" :> <<"2", "1", "+", "2">>),
      ("user_id" :> ToStr(1)) @@ ("created_at" :> EmptyStr) }

Audiences == {<<"all">>, <<"recent">>, <<"admins">>, EmptyStr}

InitAudience ==
    /\ client \in BOOLEAN
    /\ \E stored \in SUBSET AudienceKeys : hashes \in [stored -> AudienceRecords]
    /\ \E index \in SUBSET AudienceKeys, active \in SUBSET Users :
        sets = (IF index = {} THEN EmptyMap ELSE (ApplicationsKey :> index))
               @@ (IF active = {} THEN EmptyMap
                   ELSE (UsersKey :> {ToStr(u) : u \in active}))
    /\ now = AudienceNow
    /\ media = NewStorage("local", EmptyStr, {})
    /\ last = [op |-> "init"]
    /\ jobs = NoJobs

Recipients ==
    \E audience \in Audiences, fault \in 0..1 :
        /\ last' = [op |-> "recipients", audience |-> audience, fault |-> fault,
                    ret |-> recipients_for_audience(client, hashes, sets,
                                                    audience, now, fault)]
        /\ UNCHANGED <<jobs, client, hashes, sets, now, media>>

NextAudience == Recipients

SpecAudience == InitAudience /\ [][NextAudience]_vars

\* stored records of any shape: 2 days old, 45 days old, and recent or old
\* ones whose owner id is not an integer, whose timestamp does not parse or
\* is missing, and one that has no user_id field
MixedRecords ==
    { ("user_id" :> ToStr(1)) @@ ("created_at" :> <<"4", "8", "+", "0">>),
      ("user_id" :> ToStr(12)) @@ ("created_at" :> <<"0", "5", "+", "0">>),
      ("user_id" :> <<"a">>) @@ ("created_at" :> <<"4", "9">>),
      ("user_id" :> EmptyStr) @@ ("created_at" :> <<"4", "8", "+", "0">>),
      ("user_id" :> ToStr(12)) @@ ("created_at" :> <<"4", "a">>),
      ("user_id" :> ToStr(12)) @@ ("position" :> <<"O">>),
      ("created_at" :> <<"4", "9">>) @@ ("position" :> <<"O">>) }

InitMixed ==
    /\ client \in BOOLEAN
    /\ \E stored \in SUBSET AudienceKeys : hashes \in [stored -> MixedRecords]
    /\ \E index \in SUBSET AudienceKeys :
        sets = (IF index = {} THEN EmptyMap ELSE (ApplicationsKey :> index))
               @@ (UsersKey :> {ToStr(1)})
    /\ now = AudienceNow
    /\ media = NewStorage("local", EmptyStr, {})
    /\ last = [op |-> "init"]
    /\ jobs = NoJobs

SpecMixed == InitMixed /\ [][NextAudience]_vars

----------------------------------------------------------------------------
(* Broadcasts: confirm_broadcast and execute_broadcast_job of              *)
(* bot/admin_commands.py over the broadcast records of bot/admin.py        *)

MaxBroadcasts == 2      \* broadcasts that are confirmed in one run

BroadcastIds == {<<"b", Digits[i + 1]>> : i \in 1..MaxBroadcasts}

BroadcastKey(broadcast_id) ==
    Prefix \o <<":">> \o <<"broadcast">> \o <<":">> \o broadcast_id
BroadcastsKey == Prefix \o <<":">> \o <<"broadcasts">>

BROADCAST_STATUS_QUEUED == <<"queued">>
BROADCAST_STATUS_SCHEDULED == <<"scheduled">>
BROADCAST_STATUS_RUNNING == <<"running">>
BROADCAST_STATUS_SENT == <<"sent">>

\* save_broadcast_record: hset of the record, then sadd to the index; a
\* raising call (fault 1 the hset, 2 the sadd) ends the pair
save_broadcast_record(c, h, s, record, fault) ==
    LET key == BroadcastKey(record["id"])
    IN  IF ~c \/ fault = 1 THEN [hashes |-> h, sets |-> s]
        ELSE IF fault = 2 THEN [hashes |-> HSet(h, key, record), sets |-> s]
        ELSE [hashes |-> HSet(h, key, record), sets |-> SAdd(s, BroadcastsKey, key)]

update_broadcast_record(c, h, broadcast_id, fields, faulty) ==
    IF ~c \/ faulty THEN h ELSE HSet(h, BroadcastKey(broadcast_id), fields)

load_broadcast_record(c, h, broadcast_id, faulty) ==
    IF ~c THEN EmptyMap ELSE load_application(h, BroadcastKey(broadcast_id), faulty)

\* job_queue.run_once(execute_broadcast_job, data={"broadcast_id": ...})
run_once(j, broadcast_id) == [j EXCEPT !.queue = @ \cup {broadcast_id}]

\* variant: a job that has fired stays in the queue
Fired_repeating(j, broadcast_id) == j

\* the queue once the job of a broadcast has fired
Fired(j, broadcast_id) == [j EXCEPT !.queue = @ \ {broadcast_id}]

\* the record confirm_broadcast builds (audience_label, text, sender_id and
\* scheduled_at are written the same way and left out)
BroadcastRecord(broadcast_id, mode, audience, count, t) ==
    ("id" :> broadcast_id)
    @@ ("created_at" :> IsoFormat(t))
    @@ ("status" :> IF mode = "now" THEN BROADCAST_STATUS_QUEUED
                    ELSE BROADCAST_STATUS_SCHEDULED)
    @@ ("audience" :> audience)
    @@ ("recipient_count" :> ToStr(count))
    @@ ("success_count" :> ToStr(0))
    @@ ("failed_count" :> ToStr(0))
    @@ ("completed_at" :> EmptyStr)

\* confirm_broadcast; fault 1 is the read of the audience, 2 and 3 are the
\* calls of save_broadcast_record
confirm_broadcast(c, h, s, j, action, data, broadcast_id, t, fault) ==
    LET recipients == recipients_for_audience(c, h, s, data.audience, t,
                                              IF fault = 1 THEN 1 ELSE 0)
        record == BroadcastRecord(broadcast_id, data.mode, data.audience,
                                  Cardinality(recipients), t)
        saved == save_broadcast_record(c, h, s, record,
                                       IF fault > 1 THEN fault - 1 ELSE 0)
    IN  IF action # "confirm" \/ recipients = {}
        THEN [hashes |-> h, sets |-> s, jobs |-> j]
        ELSE [hashes |-> saved.hashes, sets |-> saved.sets,
              jobs |-> run_once([j EXCEPT !.issued = @ \cup {broadcast_id}],
                                broadcast_id)]

\* sorted(recipients)
RECURSIVE SortedInts(_)
SortedInts(numbers) ==
    IF numbers = {} THEN <<>>
    ELSE LET least == CHOOSE n \in numbers : \A m \in numbers : n <= m
         IN  <<least>> \o SortedInts(numbers \ {least})

\* the local variables of a job that returned before its loop
NoLoop == [remaining |-> <<>>, success |-> 0, failed |-> 0, ended |-> TRUE]

\* execute_broadcast_job up to its first await: fault 1 is the load of the
\* record, 2 the read of the audience, 3 the status update.  The result is
\* the store and the local variables of the job
execute_broadcast_job_begin(c, h, s, broadcast_id, t, fault) ==
    LET record == load_broadcast_record(c, h, broadcast_id, fault = 1)
        audience == IF "audience" \in DOMAIN record THEN record["audience"]
                    ELSE <<"all">>
        recipients == recipients_for_audience(c, h, s, audience, t,
                                              IF fault = 2 THEN 1 ELSE 0)
    IN  IF record = EmptyMap THEN [hashes |-> h, locals |-> NoLoop]
        ELSE IF recipients = {}
        THEN [hashes |-> update_broadcast_record(c, h, broadcast_id,
                            ("status" :> BROADCAST_STATUS_SENT)
                            @@ ("completed_at" :> IsoFormat(t))
                            @@ ("success_count" :> ToStr(0))
                            @@ ("failed_count" :> ToStr(0)), fault = 3),
              locals |-> NoLoop]
        ELSE [hashes |-> update_broadcast_record(c, h, broadcast_id,
                            ("status" :> BROADCAST_STATUS_RUNNING), fault = 3),
              locals |-> [remaining |-> SortedInts(recipients), success |-> 0,
                          failed |-> 0, ended |-> FALSE]]

\* variant: a send that raises is not counted
execute_broadcast_job_send_uncounted(locals, delivered) ==
    [locals EXCEPT !.remaining = Tail(@),
                   !.success = IF delivered THEN @ + 1 ELSE @]

\* one turn of the loop: send_message succeeds or raises TelegramError
execute_broadcast_job_send(locals, delivered) ==
    [locals EXCEPT !.remaining = Tail(@),
                   !.success = IF delivered THEN @ + 1 ELSE @,
                   !.failed = IF delivered THEN @ ELSE @ + 1]

\* variant: the update after the loop leaves completed_at out
execute_broadcast_job_end_unstamped(c, h, broadcast_id, locals, t, faulty) ==
    update_broadcast_record(c, h, broadcast_id,
        ("status" :> BROADCAST_STATUS_SENT)
        @@ ("success_count" :> ToStr(locals.success))
        @@ ("failed_count" :> ToStr(locals.failed)), faulty)

\* the update after the loop
execute_broadcast_job_end(c, h, broadcast_id, locals, t, faulty) ==
    update_broadcast_record(c, h, broadcast_id,
        ("status" :> BROADCAST_STATUS_SENT)
        @@ ("completed_at" :> IsoFormat(t))
        @@ ("success_count" :> ToStr(locals.success))
        @@ ("failed_count" :> ToStr(locals.failed)), faulty)

\* context.user_data[BROADCAST_DATA_KEY] when the confirmation arrives
BroadcastData ==
    [mode : {"now", "schedule"}, audience : {<<"all">>, <<"recent">>}]

\* uuid4().hex: an id that was not issued before
uuid4(j) == BroadcastIds \ j.issued

InitBroadcast ==
    /\ client \in BOOLEAN
    /\ hashes = EmptyMap
    /\ \E active \in {{1}, Users} : sets = (UsersKey :> {ToStr(u) : u \in active})
    /\ now = 0
    /\ media = NewStorage("local", EmptyStr, {})
    /\ last = [op |-> "init"]
    /\ jobs = NoJobs

ConfirmBroadcast ==
    \E action \in {"confirm", "cancel"}, data \in BroadcastData,
       broadcast_id \in uuid4(jobs), fault \in 0..3 :
        LET r == confirm_broadcast(client, hashes, sets, jobs, action, data,
                                   broadcast_id, now, fault)
        IN  /\ hashes' = r.hashes
            /\ sets' = r.sets
            /\ jobs' = r.jobs
            /\ last' = [op |-> "confirm", broadcast_id |-> broadcast_id]
            /\ UNCHANGED <<client, now, media>>

\* the scheduler fires the job of a broadcast
JobBegin ==
    \E broadcast_id \in jobs.queue, fault \in 0..3 :
        LET r == execute_broadcast_job_begin(client, hashes, sets,
                                             broadcast_id, now, fault)
            fired == Fired(jobs, broadcast_id)
        IN  /\ broadcast_id \notin DOMAIN jobs.running
            /\ hashes' = r.hashes
            /\ jobs' = IF r.locals.ended THEN fired
                       ELSE [fired EXCEPT !.running =
                                (broadcast_id :> r.locals) @@ @]
            /\ last' = [op |-> "job_begin", broadcast_id |-> broadcast_id]
            /\ UNCHANGED <<client, sets, now, media>>

JobSend ==
    \E broadcast_id \in DOMAIN jobs.running, delivered \in BOOLEAN :
        /\ jobs.running[broadcast_id].remaining # <<>>
        /\ jobs' = [jobs EXCEPT !.running[broadcast_id] =
                        execute_broadcast_job_send(@, delivered)]
        /\ last' = [op |-> "job_send", broadcast_id |-> broadcast_id]
        /\ UNCHANGED <<client, hashes, sets, now, media>>

JobEnd ==
    \E broadcast_id \in DOMAIN jobs.running, faulty \in BOOLEAN :
        /\ jobs.running[broadcast_id].remaining = <<>>
        /\ hashes' = execute_broadcast_job_end(client, hashes, broadcast_id,
                                               jobs.running[broadcast_id], now, faulty)
        /\ jobs' = [jobs EXCEPT !.running =
                        [id \in DOMAIN @ \ {broadcast_id} |-> @[id]]]
        /\ last' = [op |-> "job_end", broadcast_id |-> broadcast_id]
        /\ UNCHANGED <<client, sets, now, media>>

NextBroadcast == ConfirmBroadcast \/ JobBegin \/ JobSend \/ JobEnd

SpecBroadcast == InitBroadcast /\ [][NextBroadcast]_vars

----------------------------------------------------------------------------
(* One broadcast from its confirmation to the end of its job, while users  *)
(* become active.  The event loop resumes a job that awaits, which is the  *)
(* fairness of the send and end steps.                                     *)

FirstId == <<"b", "1">>

\* what is remembered of the broadcast: whether its job loaded the record,
\* whether a store call of the job raised, and how many recipients the job
\* resolved
NoDelivery == [started |-> FALSE, faulted |-> FALSE, resolved |-> 0]

InitDelivery ==
    /\ client = TRUE
    /\ hashes = EmptyMap
    /\ sets = (UsersKey :> {ToStr(1)})
    /\ now = 0
    /\ media = NewStorage("local", EmptyStr, {})
    /\ last = [op |-> "init", broadcast_id |-> FirstId] @@ NoDelivery
    /\ jobs = NoJobs

ConfirmFirst ==
    \E action \in {"confirm", "cancel"}, data \in BroadcastData,
       broadcast_id \in uuid4(jobs) \cap {FirstId}, fault \in 0..3 :
        LET r == confirm_broadcast(client, hashes, sets, jobs, action, data,
                                   broadcast_id, now, fault)
        IN  /\ hashes' = r.hashes
            /\ sets' = r.sets
            /\ jobs' = r.jobs
            /\ last' = [last EXCEPT !.op = "confirm"]
            /\ UNCHANGED <<client, now, media>>

RecordActiveUser ==
    \E user_id \in Users, faulty \in BOOLEAN :
        /\ sets' = record_active_user(client, sets, user_id, faulty)
        /\ last' = [last EXCEPT !.op = "record_active_user"]
        /\ UNCHANGED <<jobs, client, hashes, now, media>>

DeliverBegin ==
    \E broadcast_id \in jobs.queue, fault \in 0..3 :
        LET r == execute_broadcast_job_begin(client, hashes, sets,
                                             broadcast_id, now, fault)
            fired == Fired(jobs, broadcast_id)
            present == HGetAll(hashes, BroadcastKey(broadcast_id)) # EmptyMap
        IN  /\ broadcast_id \notin DOMAIN jobs.running
            /\ hashes' = r.hashes
            /\ jobs' = IF r.locals.ended THEN fired
                       ELSE [fired EXCEPT !.running =
                                (broadcast_id :> r.locals) @@ @]
            /\ last' = [op |-> "job_begin", broadcast_id |-> broadcast_id,
                        started |-> present, faulted |-> present /\ fault # 0,
                        resolved |-> Len(r.locals.remaining)]
            /\ UNCHANGED <<client, sets, now, media>>

DeliverSend ==
    \E broadcast_id \in DOMAIN jobs.running, delivered \in BOOLEAN :
        /\ jobs.running[broadcast_id].remaining # <<>>
        /\ jobs' = [jobs EXCEPT !.running[broadcast_id] =
                        execute_broadcast_job_send(@, delivered)]
        /\ last' = [last EXCEPT !.op = "job_send"]
        /\ UNCHANGED <<client, hashes, sets, now, media>>

DeliverEnd ==
    \E broadcast_id \in DOMAIN jobs.running, faulty \in BOOLEAN :
        /\ jobs.running[broadcast_id].remaining = <<>>
        /\ hashes' = execute_broadcast_job_end(client, hashes, broadcast_id,
                                               jobs.running[broadcast_id], now, faulty)
        /\ jobs' = [jobs EXCEPT !.running =
                        [id \in DOMAIN @ \ {broadcast_id} |-> @[id]]]
        /\ last' = [last EXCEPT !.op = "job_end", !.faulted = @ \/ faulty]
        /\ UNCHANGED <<client, sets, now, media>>

NextDelivery ==
    \/ ConfirmFirst \/ RecordActiveUser
    \/ DeliverBegin \/ DeliverSend \/ DeliverEnd

SpecDelivery ==
    /\ InitDelivery /\ [][NextDelivery]_vars
    /\ WF_vars(DeliverSend) /\ WF_vars(DeliverEnd)

----------------------------------------------------------------------------
(* Administrators: the admins set of bot/admin.py and the handlers of      *)
(* bot/admin_commands.py that change it                                    *)

AdminsKey == Prefix \o <<":">> \o <<"admins">>

\* the ids that are granted and revoked; 12 is the configured super admin
AdminIds == {1, 7, 12}

get_admins(c, s, faulty) ==
    IF ~c \/ faulty THEN {}
    ELSE {ParseInt(item) : item \in SMembers(s, AdminsKey)}

is_super_admin(user_id) == user_id \in SuperAdminIds

is_admin(c, s, user_id, faulty) ==
    IF is_super_admin(user_id) THEN TRUE
    ELSE user_id \in get_admins(c, s, faulty)

\* variant: the call reports success whenever the store answered
add_admin_always_true(c, s, user_id, faulty) ==
    IF ~c \/ faulty THEN [ret |-> FALSE, sets |-> s]
    ELSE [ret |-> TRUE, sets |-> SAdd(s, AdminsKey, ToStr(user_id))]

add_admin(c, s, user_id, faulty) ==
    IF ~c THEN [ret |-> FALSE, sets |-> s]
    ELSE IF faulty THEN [ret |-> FALSE, sets |-> s]
    ELSE [ret |-> SAddResult(s, AdminsKey, ToStr(user_id)) # 0,
          sets |-> SAdd(s, AdminsKey, ToStr(user_id))]

remove_admin(c, s, user_id, faulty) ==
    IF ~c THEN [ret |-> FALSE, sets |-> s]
    ELSE IF faulty THEN [ret |-> FALSE, sets |-> s]
    ELSE [ret |-> SRemResult(s, AdminsKey, ToStr(user_id)) # 0,
          sets |-> SRem(s, AdminsKey, ToStr(user_id))]

\* _resolve_admin_identifier: digits, with or without a leading "+", are
\* the id; any other text is looked up as a username, chat being what the
\* lookup gives (0 when it gives no private chat)
resolve_admin_identifier(raw_text, chat) ==
    LET text == Strip(raw_text)
        numeric_text == IF Len(text) > 0 /\ Head(text) = "+" THEN Tail(text) ELSE text
    IN  IF text = EmptyStr THEN [ok |-> FALSE, id |-> 0]
        ELSE IF IsDigits(numeric_text) THEN [ok |-> TRUE, id |-> ParseInt(numeric_text)]
        ELSE IF chat = 0 THEN [ok |-> FALSE, id |-> 0]
        ELSE [ok |-> TRUE, id |-> chat]

\* receive_admin_id: fault 1 is the read of is_admin, 2 the sadd
receive_admin_id(c, s, raw_text, chat, fault) ==
    LET resolved == resolve_admin_identifier(Strip(raw_text), chat)
    IN  IF ~resolved.ok THEN s
        ELSE IF is_admin(c, s, resolved.id, fault = 1) THEN s
        ELSE add_admin(c, s, resolved.id, fault = 2).sets

\* variant: the target is not compared with the super admins
receive_remove_admin_id_any(c, s, raw_text, chat, fault) ==
    LET resolved == resolve_admin_identifier(Strip(raw_text), chat)
    IN  IF ~resolved.ok THEN s
        ELSE IF resolved.id \notin get_admins(c, s, fault = 1) THEN s
        ELSE remove_admin(c, s, resolved.id, fault = 2).sets

\* receive_remove_admin_id: fault 1 is the read of is_admin, 2 the srem
receive_remove_admin_id(c, s, raw_text, chat, fault) ==
    LET resolved == resolve_admin_identifier(Strip(raw_text), chat)
    IN  IF ~resolved.ok THEN s
        ELSE IF is_super_admin(resolved.id) THEN s
        ELSE IF ~is_admin(c, s, resolved.id, fault = 1) THEN s
        ELSE remove_admin(c, s, resolved.id, fault = 2).sets

\* message texts: an id, an id with "+", a padded id, nothing, a username
AdminTexts ==
    { ToStr(7), <<"+">> \o ToStr(12), <<" ">> \o ToStr(1) \o <<" ">>,
      EmptyStr, <<"a">> }

\* what bot.get_chat gives for the username: no private chat, or one
ChatLookups == {0} \cup AdminIds

InitAdmins ==
    /\ client \in BOOLEAN
    /\ hashes = EmptyMap
    /\ sets = EmptyMap
    /\ now = 0
    /\ media = NewStorage("local", EmptyStr, {})
    /\ last = [op |-> "init"]
    /\ jobs = NoJobs

AddAdmin ==
    \E user_id \in AdminIds, faulty \in BOOLEAN :
        LET r == add_admin(client, sets, user_id, faulty)
        IN  /\ sets' = r.sets
            /\ last' = [op |-> "add", user_id |-> user_id, faulty |-> faulty,
                        ret |-> r.ret, pre |-> SMembers(sets, AdminsKey)]
            /\ UNCHANGED <<jobs, client, hashes, now, media>>

RemoveAdmin ==
    \E user_id \in AdminIds, faulty \in BOOLEAN :
        LET r == remove_admin(client, sets, user_id, faulty)
        IN  /\ sets' = r.sets
            /\ last' = [op |-> "remove", user_id |-> user_id, faulty |-> faulty,
                        ret |-> r.ret, pre |-> SMembers(sets, AdminsKey)]
            /\ UNCHANGED <<jobs, client, hashes, now, media>>

ReceiveAdminId ==
    \E raw_text \in AdminTexts, chat \in ChatLookups, fault \in 0..2 :
        /\ sets' = receive_admin_id(client, sets, raw_text, chat, fault)
        /\ last' = [op |-> "receive_add", text |-> raw_text, chat |-> chat,
                    fault |-> fault, pre |-> SMembers(sets, AdminsKey)]
        /\ UNCHANGED <<jobs, client, hashes, now, media>>

ReceiveRemoveAdminId ==
    \E raw_text \in AdminTexts, chat \in ChatLookups, fault \in 0..2 :
        /\ sets' = receive_remove_admin_id(client, sets, raw_text, chat, fault)
        /\ last' = [op |-> "receive_remove", text |-> raw_text, chat |-> chat,
                    fault |-> fault, pre |-> SMembers(sets, AdminsKey)]
        /\ UNCHANGED <<jobs, client, hashes, now, media>>

NextAdmins == AddAdmin \/ RemoveAdmin \/ ReceiveAdminId \/ ReceiveRemoveAdminId

SpecAdmins == InitAdmins /\ [][NextAdmins]_vars

----------------------------------------------------------------------------
(* The mutations of bot/admin.py with a store call that raises ValkeyError *)

\* a store that holds a record of user 1, reviewed or not, or none
InitFaults ==
    /\ client \in BOOLEAN
    /\ \E session_key \in SessionKeys, position \in PositionValues,
          photos \in PhotoLists :
        LET key == AppKey(session_key)
            record == NewRecord(1, position, photos, 0)
        IN  hashes \in { EmptyMap, (key :> record),
                         (key :> (record @@ ("reviewed_at" :> IsoFormat(0))
                                         @@ ("reviewed_by" :> ToStr(12)))) }
    /\ sets \in {EmptyMap, (AdminsKey :> {ToStr(7)})}
    /\ now = 0
    /\ media = NewStorage("local", EmptyStr, {})
    /\ last = [op |-> "init"]
    /\ jobs = NoJobs

NextFaults ==
    \/ Revoke \/ Update \/ MarkReviewed \/ ClearReview
    \/ AddAdmin \/ RemoveAdmin

SpecFaults == InitFaults /\ [][NextFaults]_vars

----------------------------------------------------------------------------
(* The mutations of a record on a store that holds another record *)

OtherKey == AppKey(<<"k", "2">>)

\* the other record is stored and indexed, or the store is empty
InitAbsent ==
    /\ client \in BOOLEAN
    /\ hashes \in {EmptyMap, (OtherKey :> NewRecord(12, <<"O">>, <<>>, 0))}
    /\ sets = IF hashes = EmptyMap THEN EmptyMap
              ELSE (ApplicationsKey :> {OtherKey})
    /\ now = 0
    /\ media = NewStorage("local", EmptyStr, {})
    /\ last = [op |-> "init"]
    /\ jobs = NoJobs

NextAbsent == Persist \/ Revoke \/ MarkReviewed \/ ClearReview

SpecAbsent == InitAbsent /\ [][NextAbsent]_vars

----------------------------------------------------------------------------
(* Two calls of mark_application_revoked that share the store, each taking *)
(* one store call per step                                                 *)

Calls == {1, 2}

\* mark_application_revoked up to its hset: the load and the checks on what
\* was loaded; TRUE when the call goes on to write
revoke_checked(c, h, session_key, user_id, fault) ==
    LET record == load_application(h, AppKey(session_key), fault = 1)
    IN  /\ c
        /\ record # EmptyMap
        /\ OwnerIs(record, user_id)
        /\ ~Truthy(Get(record, "revoked_at"))

\* the rest of mark_application_revoked: the timestamp and the hset
revoke_write(h, session_key, user_id, t, fault) ==
    IF IsoFormat(t) = EmptyStr \/ fault = 2 THEN [ret |-> FALSE, hashes |-> h]
    ELSE [ret |-> TRUE,
          hashes |-> HSet(h, AppKey(session_key),
                          ("revoked_at" :> IsoFormat(t))
                          @@ ("revoked_by" :> ToStr(user_id)))]

\* the record of user 1 is stored, indexed and not revoked
InitRace ==
    /\ client = TRUE
    /\ \E session_key \in SessionKeys, position \in PositionValues,
          photos \in PhotoLists :
        /\ hashes = (AppKey(session_key) :> NewRecord(1, position, photos, 0))
        /\ sets = (ApplicationsKey :> {AppKey(session_key)})
    /\ now = 0
    /\ media = NewStorage("local", EmptyStr, {})
    /\ last = [op |-> "init", writes |-> 0]
    /\ jobs = NoJobs

\* a call starts: it loads the record and checks it
RevokeLoad ==
    \E call \in Calls, user_id \in Users, session_key \in SessionKeys,
       fault \in 0..2 :
        /\ call \notin DOMAIN jobs.running
        /\ jobs' = [jobs EXCEPT !.running =
                (call :> [pc |-> IF revoke_checked(client, hashes, session_key,
                                                   user_id, fault)
                                 THEN "write" ELSE "done",
                          session_key |-> session_key, user_id |-> user_id,
                          fault |-> fault, ret |-> FALSE]) @@ @]
        /\ last' = [op |-> "revoke_load", writes |-> last.writes]
        /\ UNCHANGED <<client, hashes, sets, now, media>>

\* a call that passed the checks writes and returns
RevokeWrite ==
    \E call \in DOMAIN jobs.running, t \in Clock :
        LET frame == jobs.running[call]
            r == revoke_write(hashes, frame.session_key, frame.user_id, t,
                              frame.fault)
        IN  /\ frame.pc = "write"
            /\ now' = t
            /\ hashes' = r.hashes
            /\ jobs' = [jobs EXCEPT !.running[call].pc = "done",
                                    !.running[call].ret = r.ret]
            /\ last' = [op |-> "revoke_write",
                        writes |-> last.writes + (IF r.ret THEN 1 ELSE 0)]
            /\ UNCHANGED <<client, sets, media>>

NextRace == RevokeLoad \/ RevokeWrite

SpecRace == InitRace /\ [][NextRace]_vars

----------------------------------------------------------------------------
(* InMemoryValkey called directly, one call per step *)

StoreNames == {<<"k">>, <<"s">>}
StoreFields == {"a", "b"}
StoreMembers == {<<"1">>, <<"7">>}

\* the mappings given to hset, the empty one among them
StoreMappings ==
    { EmptyMap, [f \in {"a"} |-> <<"1">>], [f \in {"b"} |-> <<"7">>],
      [f \in {"a", "b"} |-> <<"1">>] }

InitFallback ==
    /\ client = TRUE
    /\ hashes = EmptyMap
    /\ sets = EmptyMap
    /\ now = 0
    /\ media = NewStorage("local", EmptyStr, {})
    /\ last = [op |-> "init"]
    /\ jobs = NoJobs

StoreCall(op, name, arg, ret) ==
    last' = [op |-> op, name |-> name, arg |-> arg, ret |-> ret,
             hashes |-> hashes, sets |-> sets]

StoreHSet ==
    \E name \in StoreNames, mapping \in StoreMappings :
        /\ hashes' = HSet(hashes, name, mapping)
        /\ StoreCall("hset", name, mapping, None)
        /\ UNCHANGED <<jobs, client, sets, now, media>>

StoreHDel ==
    \E name \in StoreNames, fields \in SUBSET StoreFields :
        /\ hashes' = HDel(hashes, name, fields)
        /\ StoreCall("hdel", name, fields, HDelRemoved(hashes, name, fields))
        /\ UNCHANGED <<jobs, client, sets, now, media>>

StoreHGetAll ==
    \E name \in StoreNames :
        /\ StoreCall("hgetall", name, None, HGetAll(hashes, name))
        /\ UNCHANGED <<jobs, client, hashes, sets, now, media>>

StoreSAdd ==
    \E name \in StoreNames, key \in StoreMembers :
        /\ sets' = SAdd(sets, name, key)
        /\ StoreCall("sadd", name, key, SAddResult(sets, name, key))
        /\ UNCHANGED <<jobs, client, hashes, now, media>>

StoreSRem ==
    \E name \in StoreNames, key \in StoreMembers :
        /\ sets' = SRem(sets, name, key)
        /\ StoreCall("srem", name, key, SRemResult(sets, name, key))
        /\ UNCHANGED <<jobs, client, hashes, now, media>>

StoreSMembers ==
    \E name \in StoreNames :
        /\ StoreCall("smembers", name, None, SMembers(sets, name))
        /\ UNCHANGED <<jobs, client, hashes, sets, now, media>>

StoreDelete ==
    \E name \in StoreNames :
        /\ hashes' = Delete(hashes, name)
        /\ sets' = Delete(sets, name)
        /\ StoreCall("delete", name, None, None)
        /\ UNCHANGED <<jobs, client, now, media>>

NextStore ==
    \/ StoreHSet \/ StoreHDel \/ StoreHGetAll
    \/ StoreSAdd \/ StoreSRem \/ StoreSMembers \/ StoreDelete

SpecStore == InitFallback /\ [][NextStore]_vars

----------------------------------------------------------------------------
(* Properties of the record operations *)

\* the record the latest operation addressed, as it is stored now
LastRecord == HGetAll(hashes, AppKey(last.session_key))

IsRecordOp(names) == last.op \in names

HasField(record, field) == field \in DOMAIN record

\* C1 - Ownership gate: update_application_fields called with at least one
\* field by a user who is not the stored owner of an existing record returns
\* false and leaves every field of the record as it was.
C1_OwnershipGate ==
    (/\ last.op = "update"
     /\ last.fields # EmptyMap
     /\ last.pre # EmptyMap
     /\ ~OwnerIs(last.pre, last.user_id))
    => (last.ret = FALSE /\ LastRecord = last.pre)

C1_Witness ==
    /\ last.op = "update"
    /\ last.fields # EmptyMap
    /\ last.pre # EmptyMap
    /\ ~OwnerIs(last.pre, last.user_id)
    /\ last.fault = 0
    /\ last.ret = FALSE

\* C2 - Idempotent revoke: the owner's revoke of an existing, not yet
\* revoked record returns true and writes revoked_at and revoked_by (when no
\* store call raises); the owner's next revoke of the same record returns
\* false and the record still holds exactly what the first call wrote.
C2_FirstRevoke ==
    (/\ last.op = "revoke"
     /\ last.fault = 0
     /\ last.pre # EmptyMap
     /\ OwnerIs(last.pre, last.user_id)
     /\ ~Truthy(Get(last.pre, "revoked_at")))
    => (/\ last.ret = TRUE
        /\ LastRecord = Merge(last.pre, ("revoked_at" :> IsoFormat(now))
                                        @@ ("revoked_by" :> ToStr(last.user_id))))

C2_IdempotentRevoke ==
    [][ /\ C2_FirstRevoke'
        /\ (/\ last.op = "revoke" /\ last.ret = TRUE
             /\ last'.op = "revoke"
             /\ last'.session_key = last.session_key
             /\ last'.user_id = last.user_id
             /\ last' # last)
            => (/\ last'.ret = FALSE
                /\ hashes' = hashes
                /\ LastRecord'["revoked_at"] = IsoFormat(now)
                /\ LastRecord'["revoked_by"] = ToStr(last.user_id)) ]_vars

\* the owner's revoke of a record that the owner has already revoked
C2_Witness ==
    /\ last.op = "revoke"
    /\ last.fault = 0
    /\ last.ret = FALSE
    /\ OwnerIs(last.pre, last.user_id)
    /\ Truthy(Get(last.pre, "revoked_at"))
    /\ Get(last.pre, "revoked_by") = ToStr(last.user_id)
    /\ IsoFormat(now) # Get(last.pre, "revoked_at")

C5_OwnerImmutable ==
    (IsRecordOp({"update", "revoke", "review", "clear"}) /\ last.pre # EmptyMap)
    => (/\ HasField(LastRecord, "user_id")
        /\ LastRecord["user_id"] = last.pre["user_id"])

\* a user other than the owner changed the record and the owner stayed
C5_Witness ==
    /\ last.op = "review"
    /\ last.ret # None
    /\ ~OwnerIs(last.pre, last.user_id)
    /\ LastRecord # last.pre
    /\ LastRecord["user_id"] = last.pre["user_id"]

\* C6 as stated - update_application_fields returns false whenever the
\* record does not exist or the acting user is not the stored owner, also
\* when no fields are supplied.
C6_Original ==
    (last.op = "update" /\ (last.pre = EmptyMap \/ ~OwnerIs(last.pre, last.user_id)))
    => last.ret = FALSE

\* C6 as amended - with at least one field supplied the call returns false
\* whenever the record does not exist or the acting user is not the stored
\* owner; with no fields it returns true and changes nothing.
C6_FailureRule ==
    /\ (/\ last.op = "update"
         /\ last.fields # EmptyMap
         /\ (last.pre = EmptyMap \/ ~OwnerIs(last.pre, last.user_id)))
        => (last.ret = FALSE /\ LastRecord = last.pre)
    /\ (last.op = "update" /\ last.fields = EmptyMap)
        => (last.ret = TRUE /\ LastRecord = last.pre)

\* an update with a field for a record that does not exist
C6_Witness ==
    /\ last.op = "update"
    /\ last.fields # EmptyMap
    /\ last.pre = EmptyMap
    /\ last.fault = 0
    /\ client
    /\ last.ret = FALSE

----------------------------------------------------------------------------
(* Properties of the read operations *)

Index == SMembers(sets, ApplicationsKey)
IndexedRecords == {key \in Index : HGetAll(hashes, key) # EmptyMap}
Occurrences(items, record) == Cardinality({i \in 1..Len(items) : items[i] = record})

\* each indexed non-empty hash is listed once for every index member holding it
ListsExactly(items, keys) ==
    /\ Len(items) = Cardinality(keys)
    /\ \A i \in 1..Len(items) : \E key \in keys : hashes[key] = items[i]
    /\ \A key \in keys :
        Occurrences(items, hashes[key])
            = Cardinality({other \in keys : hashes[other] = hashes[key]})

DescendingByCreatedAt(items) ==
    \A i, j \in 1..Len(items) :
        i < j => ~StrLess(CreatedAt(items[i]), CreatedAt(items[j]))

\* C7 - Index consistency: when the store answers every call,
\* fetch_all_submissions returns only hashes of index members, returns the
\* non-empty hash of every index member exactly once, drops index members
\* whose hash is empty or missing, and orders the result by created_at
\* descending.
C7_IndexConsistency ==
    (last.op = "fetch_all" /\ client /\ last.fault = 0)
    => (/\ ~last.unavailable
        /\ ListsExactly(last.items, IndexedRecords)
        /\ DescendingByCreatedAt(last.items))

\* two records had to be reordered and a dangling index member was dropped
C7_Witness ==
    /\ last.op = "fetch_all" /\ client /\ last.fault = 0
    /\ Index # IndexedRecords
    /\ Len(last.items) = 2
    /\ last.items[1] # last.items[2]
    /\ \E k1, k2 \in IndexedRecords :
        /\ StrLess(k1, k2)
        /\ last.items[1] = hashes[k2]
        /\ last.items[2] = hashes[k1]
        /\ StrLess(CreatedAt(hashes[k1]), CreatedAt(hashes[k2]))

\* C8 as stated - fetch_all_submissions and fetch_user_submissions return
\* None whenever the client is missing or the read of the applications index
\* raises, and return an empty list only when the index was read and holds
\* no non-empty record (for fetch_user_submissions: none of that user).
C8_UnavailableOrEmpty ==
    (last.op \in {"fetch_all", "fetch_user"})
    => (/\ (~client \/ last.fault = 1) => last.unavailable
        /\ (~last.unavailable /\ last.items = <<>>)
            => (/\ client
                /\ last.fault # 1
                /\ \A key \in IndexedRecords :
                    last.op = "fetch_user"
                    /\ Get(hashes[key], "user_id") # ToStr(last.user_id)))

\* C9 - Owner filter: fetch_user_submissions(u) returns exactly the records
\* of fetch_all_submissions on the same store whose user_id is str(u), in
\* the same order, and never a record with another or no user_id.
C9_OwnerFilter ==
    (last.op = "fetch_user")
    => LET all == fetch_all_submissions(client, hashes, sets, last.fault)
           mine == {i \in 1..Len(all.items) :
                        "user_id" \in DOMAIN all.items[i]
                        /\ all.items[i]["user_id"] = ToStr(last.user_id)}
       IN  /\ last.unavailable = all.unavailable
           /\ Len(last.items) = Cardinality(mine)
           /\ \A i \in 1..Len(last.items) :
                /\ "user_id" \in DOMAIN last.items[i]
                /\ last.items[i]["user_id"] = ToStr(last.user_id)
           /\ \E pos \in [1..Len(last.items) -> mine] :
                /\ \A i, j \in 1..Len(last.items) : i < j => pos[i] < pos[j]
                /\ \A i \in 1..Len(last.items) : last.items[i] = all.items[pos[i]]

\* the user's records were picked out of a list holding a record of another
\* user and a record of the user
C9_Witness ==
    /\ last.op = "fetch_user" /\ client /\ last.fault = 0
    /\ Len(last.items) = 1
    /\ Cardinality(IndexedRecords) = 2
    /\ \E key \in IndexedRecords :
        /\ "user_id" \in DOMAIN hashes[key]
        /\ hashes[key]["user_id"] # ToStr(last.user_id)

----------------------------------------------------------------------------
(* Properties of the photo storage *)

\* where a handle points: an absolute handle by itself, a relative one from
\* the root
Target(handle) ==
    IF IsAbsolute(handle) THEN ResolveFrom(<<>>, Parts(handle))
    ELSE ResolveFrom(StorageRoot, Parts(handle))

LeavesRoot(handle) == ~IsRelativeTo(Target(handle), StorageRoot)

Rejected ==
    /\ last.kind = "FileNotFoundError"
    /\ ~last.downloaded
    /\ media = last.pre

\* C10 as stated - for both backends cache_photo raises the not-found error,
\* returns no path and downloads nothing for every handle that is absolute
\* or whose resolution against the root leaves the root.
C10_Original ==
    (last.op = "cache_photo" /\ (IsAbsolute(last.handle) \/ LeavesRoot(last.handle)))
    => Rejected

\* C10 as amended - for both backends cache_photo raises the not-found
\* error, downloads nothing and touches no file for every handle whose
\* resolution leaves the root, and on the MinIO backend for every absolute
\* handle; no path it returns lies outside the root; the local backend
\* returns the resolved path of an absolute handle that names an existing
\* path inside its root.
C10_TraversalRejected ==
    (last.op = "cache_photo")
    => (/\ LeavesRoot(last.handle) => Rejected
        /\ (IsAbsolute(last.handle) /\ last.pre.backend = "minio") => Rejected
        /\ last.kind = "path" => IsRelativeTo(last.path, StorageRoot)
        /\ (/\ IsAbsolute(last.handle)
            /\ last.pre.backend = "local"
            /\ ~LeavesRoot(last.handle)
            /\ Exists(last.pre, Target(last.handle)))
            => (last.kind = "path" /\ last.path = Target(last.handle)))

\* a relative handle that points at an existing file outside the root was
\* rejected by the MinIO backend
C10_Witness ==
    /\ last.op = "cache_photo"
    /\ last.pre.backend = "minio"
    /\ ~IsAbsolute(last.handle)
    /\ LeavesRoot(last.handle)
    /\ Target(last.handle) \in media.files
    /\ Rejected

\* C11 as stated - for both backends get_session raises for every session
\* key that resolves outside the storage root and returns a session only for
\* keys that resolve inside it.
C11_SessionKeyRejected ==
    (last.op = "get_session")
    => (/\ LeavesRoot(last.session_key) => last.kind # "session"
        /\ last.kind = "session" => ~LeavesRoot(last.session_key))

\* C12 as stated - for both backends the path that allocate_path returns has
\* the session's own directory as its parent and the base name of the
\* filename as its name, whatever directory components the filename has
\* (stated for filenames that have a base name).
C12_FilenameSanitised ==
    (/\ last.op = "allocate_path"
     /\ Name(last.filename) # EmptyStr
     /\ last.kind = "path")
    => (/\ SubSeq(last.path, 1, Len(last.path) - 1)
            = SessionDirectory(last.pre, last.session_key)
        /\ last.path[Len(last.path)] = Name(last.filename))

\* C13 - Download-once cache: on the MinIO backend no handle is fetched from
\* the bucket more than once, and a cache_photo call for a handle whose
\* target is already in the cache fetches nothing, leaves the files as they
\* are and returns that target.
C13_DownloadOnce ==
    /\ \A handle \in DOMAIN media.fetched : media.fetched[handle] <= 1
    /\ (/\ last.op = "cache_photo"
         /\ last.pre.backend = "minio"
         /\ ~IsAbsolute(last.handle)
         /\ ~LeavesRoot(last.handle)
         /\ Exists(last.pre, Target(last.handle)))
        => (/\ last.kind = "path"
            /\ last.path = Target(last.handle)
            /\ ~last.downloaded
            /\ media.files = last.pre.files
            /\ media.fetched = last.pre.fetched)

\* a handle that an earlier call had downloaded was served from the cache
C13_Witness ==
    /\ last.op = "cache_photo"
    /\ last.pre.backend = "minio"
    /\ last.handle \in DOMAIN last.pre.fetched
    /\ last.pre.fetched[last.handle] = 1
    /\ last.kind = "path"
    /\ ~last.downloaded
    /\ media.fetched = last.pre.fetched

----------------------------------------------------------------------------
(* Properties of the submission sessions *)

\* a session exists when its hash has a field (a hash without fields does
\* not exist in the store)
HasSession(user_id) == HGetAll(hashes, SessionKey(user_id)) # EmptyMap

\* the keys under which hashes of a user's session are stored
SessionHashes(user_id) ==
    {key \in DOMAIN hashes :
        /\ Len(key) > Len(ToStr(user_id))
        /\ SubSeq(key, 1, Len(key) - Len(ToStr(user_id)))
            = Prefix \o <<":">> \o <<"session">> \o <<":">>
        /\ SubSeq(key, Len(key) - Len(ToStr(user_id)) + 1, Len(key)) = ToStr(user_id)}

\* what get returns for data read back without loss
Defaulted(data) == SetDefault(data, "photos", PyList(<<>>))

\* C14 as stated - after init_session(u, d), get(u) is d with photos
\* defaulted to the empty list, whatever an earlier session of u held, and
\* every user has at most one session hash.
C14_Original ==
    /\ \A user_id \in Users : Cardinality(SessionHashes(user_id)) <= 1
    /\ (last.op = "init_session")
        => ApplicationStore_get(hashes, last.user_id) = Defaulted(last.data)

\* C14 as amended - after init_session(u, d) with at least one field in d,
\* get(u) is d with photos defaulted to the empty list and no field of an
\* earlier session of u survives; after init_session(u, {}) get(u) is the
\* empty mapping; every user has at most one session hash.
C14_SessionOverwrite ==
    /\ \A user_id \in Users : Cardinality(SessionHashes(user_id)) <= 1
    /\ (last.op = "init_session" /\ last.data # EmptyMap)
        => ApplicationStore_get(hashes, last.user_id) = Defaulted(last.data)
    /\ (last.op = "init_session" /\ last.data = EmptyMap)
        => ApplicationStore_get(hashes, last.user_id) = EmptyMap

\* a session that held a field the new data lacks was overwritten
C14_Witness ==
    /\ last.op = "init_session"
    /\ last.data # EmptyMap
    /\ DOMAIN last.pre \ (DOMAIN last.data \cup {"photos"}) # {}
    /\ ApplicationStore_get(hashes, last.user_id) = Defaulted(last.data)

C16_SessionRead ==
    /\ (last.op = "get")
        => (/\ ~HasSession(last.user_id) => last.ret = EmptyMap
            /\ HasSession(last.user_id)
                => (/\ "photos" \in DOMAIN last.ret
                    /\ "photos" \notin DOMAIN hashes[SessionKey(last.user_id)]
                        => last.ret["photos"] = PyList(<<>>)))
    /\ (last.op = "clear_session")
        => ApplicationStore_get(hashes, last.user_id) = EmptyMap

\* a session without a photos field was read
C16_Witness ==
    /\ last.op = "get"
    /\ HasSession(last.user_id)
    /\ "photos" \notin DOMAIN hashes[SessionKey(last.user_id)]
    /\ last.ret["photos"] = PyList(<<>>)

----------------------------------------------------------------------------
(* Properties of the submission conversation *)

\* the latest step is a get_contacts that ran to its end for a user with a
\* live session, with no store call raising
Completed ==
    /\ last.op = "get_contacts"
    /\ last.ret = "end"
    /\ last.fault = 0
    /\ last.pre # EmptyMap

\* C17 - Submission completion: when get_contacts finishes for a user with
\* a live session and no store call raises, the record hash exists under
\* {prefix}:{session_key} with that user's id and the submitted contacts, its
\* key is in {prefix}:applications, and the user's session hash is gone.
C17_SubmissionCompleted ==
    Completed
    => (/\ ("session_key" \in DOMAIN last.pre)
            => last.key = AppKey(last.pre["session_key"].v)
        /\ last.key \in DOMAIN hashes
        /\ Get(hashes[last.key], "user_id") = ToStr(last.user_id)
        /\ Get(hashes[last.key], "contacts") = last.text
        /\ last.key \in SMembers(sets, ApplicationsKey)
        /\ SessionKey(last.user_id) \notin DOMAIN hashes)

\* a session started by /new, with a position and a photo, was submitted
C17_Witness ==
    /\ Completed
    /\ "session_key" \in DOMAIN last.pre
    /\ Len(last.pre["photos"].v) > 0
    /\ Get(hashes[last.key], "position") = <<"O">>
    /\ Get(hashes[last.key], "photos") # EmptyStr
    /\ last.key \in SMembers(sets, ApplicationsKey)
    /\ ~HasSession(last.user_id)

\* C18 as stated - after a submission is completed by user u, the record
\* key is a member of the per-user index {prefix}:user:{u}:applications.
C18_PerUserIndex ==
    Completed => last.key \in SMembers(sets, UserApplicationsKey(last.user_id))

\* C19 as stated - after the cancel handler ran for a user with a session
\* in progress, that user's session is gone and get(user) is the empty mapping.
C19_CancelDestroysSession ==
    (last.op = "cancel" /\ last.pre # EmptyMap)
    => (/\ ~HasSession(last.user_id)
        /\ ApplicationStore_get(hashes, last.user_id) = EmptyMap)

----------------------------------------------------------------------------
(* Properties of the broadcast audiences *)

\* the day a timestamp text names, read as UTC when it has no offset
NamesDay(text, day) ==
    \/ text = IsoFormat(day)
    \/ \E offset \in 0..9 :
        day + offset < 100 /\ text = IsoFormat(day + offset) \o <<"+", Digits[offset + 1]>>

\* the owners with an indexed record that is at most WindowDays days old
OwnersWithinWindow ==
    {u \in Users :
        \E key \in IndexedRecords :
            /\ Get(hashes[key], "user_id") = ToStr(u)
            /\ \E day \in 0..99 :
                /\ NamesDay(CreatedAt(hashes[key]), day)
                /\ now - day <= WindowDays}

\* C20 - Audience resolution: when the store answers,
\* recipients_for_audience('all') is the active-users set as integers and
\* recipients_for_audience('recent') is the set of owners with at least one
\* indexed record whose created_at, read as UTC when naive, is not older
\* than 30 days.
C20_AudienceResolution ==
    (last.op = "recipients" /\ client /\ last.fault = 0)
    => (/\ last.audience = <<"all">>
            => last.ret = {u \in Users : ToStr(u) \in SMembers(sets, UsersKey)}
        /\ last.audience = <<"recent">> => last.ret = OwnersWithinWindow)

\* the owner of a record 2 days old is a recipient, the owner whose only
\* record is 45 days old is not
C20_Witness ==
    /\ last.op = "recipients" /\ client /\ last.fault = 0
    /\ last.audience = <<"recent">>
    /\ last.ret = {1}
    /\ \E k1, k2 \in IndexedRecords :
        /\ hashes[k1] = ("user_id" :> ToStr(1)) @@ ("created_at" :> <<"4", "8", "+", "0">>)
        /\ hashes[k2] = ("user_id" :> ToStr(12)) @@ ("created_at" :> <<"0", "5", "+", "0">>)

\* a record that 'recent' resolution is to skip: its created_at does not
\* parse (or is missing), or its user_id is there and is not an integer
Malformed(record) ==
    \/ ~fromisoformat(CreatedAt(record)).ok
    \/ ("user_id" \in DOMAIN record /\ ~IsDigits(record["user_id"]))

\* the owners of the well-formed indexed records within the window, the
\* owner of a record without a user_id field being read as 0
WellFormedOwners ==
    {ParseInt(OwnerId(hashes[key])) :
        key \in {k \in IndexedRecords :
                   /\ ~Malformed(hashes[k])
                   /\ InstantOf(fromisoformat(CreatedAt(hashes[k]))) >= now - WindowDays}}

\* C21 - Malformed records are skipped: 'recent' audience resolution over
\* any mix of records returns a set of recipients (it does not raise), a
\* record whose created_at does not parse or whose user_id is not an
\* integer adds no recipient, and the result is the one computed over the
\* well-formed records alone.
C21_MalformedSkipped ==
    (last.op = "recipients" /\ last.audience = <<"recent">> /\ client /\ last.fault = 0)
    => (/\ last.ret \in SUBSET Nat
        /\ last.ret = WellFormedOwners)

\* a recent record with a non-integer owner id is indexed next to a recent
\* well-formed one, and the owner of the latter is the only recipient
C21_Witness ==
    /\ last.op = "recipients" /\ last.audience = <<"recent">> /\ client /\ last.fault = 0
    /\ last.ret = {1}
    /\ \E k1, k2 \in IndexedRecords :
        /\ hashes[k1] = ("user_id" :> <<"a">>) @@ ("created_at" :> <<"4", "9">>)
        /\ hashes[k2] = ("user_id" :> ToStr(1)) @@ ("created_at" :> <<"4", "8", "+", "0">>)

----------------------------------------------------------------------------
(* Properties of the review flag *)

ReviewFields == {"reviewed_at", "reviewed_by"}

\* C22 - Review marking: for an existing record and any reviewer, owner or
\* not, mark_application_reviewed writes reviewed_at and reviewed_by in one
\* hash write (both or neither), returns exactly the timestamp it stored in
\* reviewed_at, stores the reviewer id as a string and changes no other
\* field.
C22_ReviewMarking ==
    (last.op = "review" /\ client /\ last.pre # EmptyMap)
    => (/\ last.fault = 0
            => (/\ last.ret = IsoFormat(last.t)
                /\ HasField(LastRecord, "reviewed_at")
                /\ LastRecord["reviewed_at"] = last.ret
                /\ HasField(LastRecord, "reviewed_by")
                /\ LastRecord["reviewed_by"] = ToStr(last.user_id))
        /\ last.fault # 0 => (last.ret = None /\ LastRecord = last.pre)
        /\ DOMAIN LastRecord \in {DOMAIN last.pre, DOMAIN last.pre \cup ReviewFields}
        /\ \A field \in DOMAIN last.pre \ ReviewFields :
            LastRecord[field] = last.pre[field])

\* a reviewer who is not the owner marks a record that an earlier review
\* had marked at another time
C22_Witness ==
    /\ last.op = "review" /\ client /\ last.fault = 0
    /\ ~OwnerIs(last.pre, last.user_id)
    /\ HasField(last.pre, "reviewed_at")
    /\ last.pre["reviewed_at"] # last.ret
    /\ LastRecord["reviewed_at"] = last.ret
    /\ LastRecord["reviewed_by"] = ToStr(last.user_id)

\* C23 - Cleared review reads as empty strings: after
\* mark_application_reviewed followed by a successful
\* clear_application_review, record.get("reviewed_at") and
\* record.get("reviewed_by") of the record hash are the empty string.
C23_ClearedReadsEmpty ==
    (/\ last.op = "clear" /\ last.ret = TRUE
     /\ HasField(last.pre, "reviewed_at") /\ HasField(last.pre, "reviewed_by"))
    => (/\ Get(LastRecord, "reviewed_at") = EmptyStr
        /\ Get(LastRecord, "reviewed_by") = EmptyStr)

----------------------------------------------------------------------------
(* Properties of the owner's update *)

\* the stored form of a supplied value
StoredForm(value) ==
    CASE value.t = "list" -> Join(value.v)
      [] value.t = "none" -> EmptyStr
      [] value.t = "int" -> ToStr(value.v)
      [] value.t = "str" -> value.v

----------------------------------------------------------------------------
(* Properties of the broadcasts *)

StatusRank(status) ==
    CASE status \in {BROADCAST_STATUS_QUEUED, BROADCAST_STATUS_SCHEDULED} -> 1
      [] status = BROADCAST_STATUS_RUNNING -> 2
      [] status = BROADCAST_STATUS_SENT -> 3

CountersOf(record) == <<record["success_count"], record["failed_count"]>>

\* C25 - Broadcast status monotonicity: in every step every broadcast record
\* keeps its status or moves it forward in the order queued or scheduled,
\* running, sent; and the success_count and failed_count of an existing
\* record change only in a step of execute_broadcast_job.
C25_StatusMonotonic ==
    [][\A broadcast_id \in BroadcastIds :
        LET key == BroadcastKey(broadcast_id)
        IN  key \in DOMAIN hashes
            => (/\ key \in DOMAIN hashes'
                /\ \/ hashes'[key]["status"] = hashes[key]["status"]
                   \/ StatusRank(hashes'[key]["status"])
                        > StatusRank(hashes[key]["status"])
                /\ CountersOf(hashes'[key]) # CountersOf(hashes[key])
                    => last'.op \in {"job_begin", "job_end"})]_vars

\* a broadcast to two recipients ended as sent with one delivery and one
\* failure while the record of another broadcast is still scheduled
C25_Witness ==
    /\ last.op = "job_end"
    /\ \E b1, b2 \in BroadcastIds :
        /\ BroadcastKey(b1) \in DOMAIN hashes /\ BroadcastKey(b2) \in DOMAIN hashes
        /\ hashes[BroadcastKey(b1)]["status"] = BROADCAST_STATUS_SENT
        /\ hashes[BroadcastKey(b1)]["success_count"] = ToStr(1)
        /\ hashes[BroadcastKey(b1)]["failed_count"] = ToStr(1)
        /\ hashes[BroadcastKey(b2)]["status"] = BROADCAST_STATUS_SCHEDULED

----------------------------------------------------------------------------
(* Properties of the stored photos *)

Elements(sequence) == {sequence[i] : i \in 1..Len(sequence)}

\* C26 - Handle round-trip: on both backends the handle returned by
\* finalize_upload(session, allocate_path(session, name)) for a staged file
\* is session.key + "/" + the base name of name, list_photo_handles of the
\* session contains it however the backend enumerates, and cache_photo of
\* it returns an existing path inside the storage root (local) or the
\* cache root (MinIO).
C26_HandleRoundTrip ==
    (last.op = "store" /\ last.kind = "handle")
    => (/\ last.handle = last.session_key \o <<"/">> \o Name(last.filename)
        /\ \A enumerated \in Enumerations(Enumerable(media, last.session_key)) :
            last.handle \in Elements(list_photo_handles(media, last.session_key,
                                                        enumerated))
        /\ LET r == cache_photo(media, last.handle)
           IN  /\ r.kind = "path"
               /\ Exists(r.media, r.path)
               /\ IsRelativeTo(r.path, StorageRoot))

\* on the MinIO backend a photo named "../b" was staged outside the session
\* directory and stored; its handle is cached by a download
C26_Witness ==
    /\ last.op = "store" /\ last.kind = "handle"
    /\ media.backend = "minio"
    /\ last.filename = <<"..", "/", "b">>
    /\ last.handle = <<"s", "/", "b">>
    /\ cache_photo(media, last.handle).downloaded

\* the handles of what is stored for a session
StoredHandles(session_key) ==
    IF media.backend = "local"
    THEN {session_key \o <<"/">> \o path[Len(path)] :
            path \in Enumerable(media, session_key) \cap media.files}
    ELSE {handle_from_object_name(media, object) :
            object \in Enumerable(media, session_key)}

\* C27 - Deterministic listing: on both backends list_photo_handles of a
\* session returns the handles stored for that session in sorted order,
\* whatever order the backend enumerates them in.
C27_SortedListing ==
    last.op = "list" => last.ret = Sorted(StoredHandles(last.session_key))

\* the handle a trimmed input names, and where its file goes
Trimmed(handles) == [i \in 1..Len(handles) |-> Strip(handles[i])]

TargetOf(m, handle) ==
    ResolveFrom(IF IsAbsolute(handle) THEN <<>> ELSE StorageRoot, Parts(handle))

\* the first occurrences of the handles that are not empty and have no
\* ".." segment
Firsts(handles) ==
    {i \in 1..Len(handles) :
        /\ Trimmed(handles)[i] # EmptyStr
        /\ ~Suspicious(Trimmed(handles)[i])
        /\ \A j \in 1..(i - 1) : Trimmed(handles)[j] # Trimmed(handles)[i]}

\* the blob of a valid handle exists: the file in the root (local), the
\* cached file or the object (MinIO)
BlobExists(m, handle) ==
    /\ IsRelativeTo(TargetOf(m, handle), StorageRoot)
    /\ IF m.backend = "local" THEN Exists(m, TargetOf(m, handle))
       ELSE /\ ~IsAbsolute(handle)
            /\ \/ TargetOf(m, handle) \in m.files
               \/ object_name(m, handle) \in m.bucket

\* the result holds at most one path for each distinct trimmed handle, in
\* the order of first occurrence, none for a handle with a ".." segment,
\* and the path of every such handle whose blob exists
BatchResult ==
    \E kept \in SUBSET Firsts(last.handles) :
        /\ \A i \in Firsts(last.handles) :
            BlobExists(last.pre, Trimmed(last.handles)[i]) => i \in kept
        /\ last.paths = [k \in 1..Cardinality(kept) |->
                            TargetOf(last.pre,
                                     Trimmed(last.handles)[SortedInts(kept)[k]])]

\* C28 - Best-effort batch caching: cache_photos does not raise for a batch
\* of empty, duplicate, missing or traversal-looking handles; its result
\* holds at most one path per distinct trimmed handle, in input order, no
\* path for a handle with a ".." segment, and the path of every valid
\* handle whose blob exists.
C28_BatchCaching ==
    last.op = "cache_photos" => (last.kind = "list" /\ BatchResult)

----------------------------------------------------------------------------
(* Properties of the administrators *)

Admins == SMembers(sets, AdminsKey)

\* C29 - Admin set mutations report change: when the store answers,
\* add_admin(u) returns true exactly when u was not in the admins set and
\* remove_admin(u) returns true exactly when u was in it; a call that
\* repeats an addition or a removal returns false and leaves the set as it
\* was.
C29_MutationsReportChange ==
    /\ (last.op = "add" /\ client /\ ~last.faulty)
        => (/\ last.ret = (ToStr(last.user_id) \notin last.pre)
            /\ Admins = last.pre \cup {ToStr(last.user_id)}
            /\ ~last.ret => Admins = last.pre)
    /\ (last.op = "remove" /\ client /\ ~last.faulty)
        => (/\ last.ret = (ToStr(last.user_id) \in last.pre)
            /\ Admins = last.pre \ {ToStr(last.user_id)}
            /\ ~last.ret => Admins = last.pre)

\* an admin who is in the set next to another one is added again
C29_Witness ==
    /\ last.op = "add" /\ client /\ ~last.faulty
    /\ last.ret = FALSE
    /\ last.pre = {ToStr(1), ToStr(7)}
    /\ last.user_id = 7
    /\ Admins = last.pre

\* C30 - Admin membership: in every state reached by add_admin,
\* remove_admin, receive_admin_id and receive_remove_admin_id, is_admin(u)
\* holds exactly when u is a configured super admin or a member of the
\* admins set; a super admin is an admin also when the store does not
\* answer; and receive_remove_admin_id removes no super admin's id from the
\* set.
C30_AdminMembership ==
    /\ \A u \in AdminIds :
        is_admin(client, sets, u, FALSE) <=> (u \in SuperAdminIds \/ ToStr(u) \in Admins)
    /\ \A u \in SuperAdminIds : \A faulty \in BOOLEAN : is_admin(client, sets, u, faulty)
    /\ last.op = "receive_remove"
        => \A u \in SuperAdminIds : ToStr(u) \in last.pre => ToStr(u) \in Admins

\* the super admin's id, which add_admin had put into the set, was named
\* to receive_remove_admin_id and is still in the set
C30_Witness ==
    /\ last.op = "receive_remove" /\ client /\ last.fault = 0
    /\ last.text = <<"+">> \o ToStr(12)
    /\ ToStr(12) \in last.pre
    /\ ToStr(12) \in Admins
    /\ is_admin(client, sets, 12, FALSE)

----------------------------------------------------------------------------
(* Properties of the fallback store *)

\* C31 - Fallback store semantics: in every sequence of calls of
\* InMemoryValkey, hgetall and smembers of an absent key are empty; sadd
\* returns 1 exactly when the member is new and srem returns 1 exactly when
\* the member was present, and a call that returns 0 changes no set; hdel
\* returns the number of fields it removed; and a hash whose last field is
\* removed reads like an absent key.
C31_FallbackStore ==
    /\ (last.op = "hgetall" /\ last.name \notin DOMAIN last.hashes)
        => last.ret = EmptyMap
    /\ (last.op = "smembers" /\ last.name \notin DOMAIN last.sets)
        => last.ret = {}
    /\ last.op = "sadd"
        => (/\ last.ret = (IF last.arg \in SMembers(last.sets, last.name) THEN 0 ELSE 1)
            /\ SMembers(sets, last.name) = SMembers(last.sets, last.name) \cup {last.arg}
            /\ last.ret = 0 => \A n \in StoreNames : SMembers(sets, n) = SMembers(last.sets, n))
    /\ last.op = "srem"
        => (/\ last.ret = (IF last.arg \in SMembers(last.sets, last.name) THEN 1 ELSE 0)
            /\ SMembers(sets, last.name) = SMembers(last.sets, last.name) \ {last.arg}
            /\ last.ret = 0 => \A n \in StoreNames : SMembers(sets, n) = SMembers(last.sets, n))
    /\ last.op = "hdel"
        => LET before == DOMAIN HGetAll(last.hashes, last.name)
               after == DOMAIN HGetAll(hashes, last.name)
           IN  /\ after = before \ last.arg
               /\ last.ret = Cardinality(before) - Cardinality(after)
               /\ (before # {} /\ before \subseteq last.arg)
                    => (/\ HGetAll(hashes, last.name) = EmptyMap
                        /\ last.name \notin DOMAIN hashes)

\* hdel named one field that the hash has and one that it has not; it was
\* the last field of the hash
C31_Witness ==
    /\ last.op = "hdel"
    /\ DOMAIN HGetAll(last.hashes, last.name) = {"a"}
    /\ last.arg = {"a", "b"}
    /\ last.ret = 1
    /\ last.name \notin DOMAIN hashes

----------------------------------------------------------------------------
(* Properties of the mutations under store faults *)

\* what the operation returns when it fails
Sentinel(op) == IF op = "review" THEN None ELSE FALSE

\* an operation of the record that makes a store call: every one but the
\* update with no fields, which returns before the client is looked up
CallsStore ==
    /\ last.op \in {"revoke", "update", "review", "clear"}
    /\ last.op = "update" => last.fields # EmptyMap

\* C32 - Record-store faults become sentinels: when a store call inside
\* mark_application_revoked, update_application_fields,
\* mark_application_reviewed, clear_application_review, add_admin or
\* remove_admin raises a store fault, the operation returns false or None
\* and the record or the admins set is as it was before the call.
C32_FaultsBecomeSentinels ==
    /\ (CallsStore /\ client /\ last.fault # 0)
        => (/\ last.ret = Sentinel(last.op)
            /\ HGetAll(hashes, AppKey(last.session_key)) = last.pre)
    /\ (last.op \in {"add", "remove"} /\ client /\ last.faulty)
        => (/\ last.ret = FALSE
            /\ Admins = last.pre)

\* the hset of a review that would have succeeded raised
C32_Witness ==
    /\ last.op = "review" /\ client /\ last.fault = 2
    /\ last.pre # EmptyMap
    /\ last.ret = None
    /\ HGetAll(hashes, AppKey(last.session_key)) = last.pre

----------------------------------------------------------------------------
(* Properties of the session store under store faults *)

\* C33 - Session-store faults become sentinels: a store fault raised during
\* init_session, set_fields, append_photo, get or clear does not leave the
\* operation as an exception.
C33_SessionFaultsContained ==
    last.op \in {"init_session", "set_fields", "append_photo", "get", "clear_session"}
        => ~last.raised

----------------------------------------------------------------------------
(* Properties of the mutations of a record that is not stored *)

\* C34 - No record is created by a failed mutation: a step of
\* mark_application_reviewed, clear_application_review or
\* mark_application_revoked for a session key that has no stored record
\* returns None or false and leaves every hash and every set of the store
\* as it was; no hash appears under the key and the applications index
\* keeps its members.
C34_NoRecordCreated ==
    [][(last'.op \in {"review", "clear", "revoke"} /\ last'.pre = EmptyMap)
        => (/\ last'.ret = Sentinel(last'.op)
            /\ hashes' = hashes
            /\ sets' = sets
            /\ AppKey(last'.session_key) \notin DOMAIN hashes')]_vars

\* a review of a key that has no record, on a store whose index names
\* another record, returned None without a store fault
C34_Witness ==
    /\ last.op = "review" /\ client /\ last.fault = 0
    /\ last.pre = EmptyMap
    /\ last.ret = None
    /\ AppKey(last.session_key) \notin DOMAIN hashes
    /\ OtherKey \in DOMAIN hashes
    /\ SMembers(sets, ApplicationsKey) = {OtherKey}

----------------------------------------------------------------------------
(* Properties of interleaved revocations *)

ReturnedTrue ==
    {call \in DOMAIN jobs.running :
        jobs.running[call].pc = "done" /\ jobs.running[call].ret}

\* C35 - Revoke under interleaving: of two mark_application_revoked calls
\* by the owner on the same unrevoked record, interleaved store call by
\* store call, at most one returns true and revoked_at is written once.
C35_RevokeOnce ==
    /\ Cardinality(ReturnedTrue) <= 1
    /\ last.writes <= 1

----------------------------------------------------------------------------
(* Properties of the life of a session *)

\* C36 - Sessions are created only by init_session (as first stated):
\* after set_fields or append_photo for a user who has no live session,
\* get(user) is still the empty mapping; and set_fields with no fields
\* leaves the session as it was.
C36_Original ==
    /\ (last.op \in {"set_fields", "append_photo"} /\ last.pre = EmptyMap)
        => ApplicationStore_get(hashes, last.user_id) = EmptyMap
    /\ (last.op = "set_fields" /\ last.data = EmptyMap)
        => ApplicationStore_get(hashes, last.user_id) = last.pre

\* C36 - Sessions are created by the first write (as amended): set_fields
\* with at least one field, or append_photo, for a user who has no live
\* session creates the session, and get(user) then has the fields written
\* and photos, which holds the one path after append_photo; set_fields with
\* no fields changes nothing, so that get(user) of a user without a session
\* is still the empty mapping.
C36_SessionsByWrite ==
    LET session == ApplicationStore_get(hashes, last.user_id)
    IN  /\ (last.op = "set_fields" /\ last.pre = EmptyMap /\ last.data # EmptyMap)
            => DOMAIN session = DOMAIN last.data \cup {"photos"}
        /\ (last.op = "append_photo" /\ last.pre = EmptyMap)
            => (/\ DOMAIN session = {"photos"}
                /\ Len(session["photos"].v) = 1)
        /\ (last.op = "set_fields" /\ last.data = EmptyMap)
            => session = last.pre

\* a photo was appended for a user who had no session, and get gives a
\* session
C36_Witness ==
    /\ last.op = "append_photo"
    /\ last.pre = EmptyMap
    /\ ApplicationStore_get(hashes, last.user_id) # EmptyMap

----------------------------------------------------------------------------
(* Properties of the delivery of a broadcast *)

FirstRecord == HGetAll(hashes, BroadcastKey(FirstId))

Attempts(record) ==
    ParseInt(record["success_count"]) + ParseInt(record["failed_count"])

\* the record says sent, has a completion time, and its counters add up to
\* the number of recipients the job resolved
Completed37 ==
    /\ FirstRecord # EmptyMap
    /\ FirstRecord["status"] = BROADCAST_STATUS_SENT
    /\ FirstRecord["completed_at"] # EmptyStr
    /\ Attempts(FirstRecord) = last.resolved

C38_Original ==
    (FirstRecord # EmptyMap /\ FirstRecord["status"] = BROADCAST_STATUS_SENT)
        => Attempts(FirstRecord) = ParseInt(FirstRecord["recipient_count"])

\* C38 - Broadcast counters add up (as amended): whenever a broadcast
\* record has status sent, its success_count plus its failed_count is the
\* number of recipients the job resolved when it ran, which is the stored
\* recipient_count when the audience resolved to as many users at both
\* times.
C38_CountersAddUp ==
    (FirstRecord # EmptyMap /\ FirstRecord["status"] = BROADCAST_STATUS_SENT)
        => Attempts(FirstRecord) = last.resolved

\* a user became active after the confirmation: the job sent to two
\* recipients and the record still says one
C38_Witness ==
    /\ FirstRecord # EmptyMap
    /\ FirstRecord["status"] = BROADCAST_STATUS_SENT
    /\ ~last.faulted
    /\ FirstRecord["recipient_count"] = ToStr(1)
    /\ Attempts(FirstRecord) = 2
    /\ last.resolved = 2

----------------------------------------------------------------------------
(* Properties of the recipients of the recent audience *)

\* the record is stored with a timestamp inside the window
InWindow(record) ==
    /\ fromisoformat(CreatedAt(record)).ok
    /\ InstantOf(fromisoformat(CreatedAt(record))) >= now - WindowDays

\* C39 - Recipients are real owners: every id that
\* recipients_for_audience('recent') returns is the user_id of a stored
\* record inside the 30-day window, so that a record without a user_id
\* field adds no recipient.
C39_RealOwners ==
    (last.op = "recipients" /\ last.audience = <<"recent">>)
    => \A id \in last.ret :
        \E key \in DOMAIN hashes :
            /\ "user_id" \in DOMAIN hashes[key]
            /\ hashes[key]["user_id"] = ToStr(id)
            /\ InWindow(hashes[key])

----------------------------------------------------------------------------
(* Properties of the photo step *)

Held == PhotoCount(hashes, 12)

\* C40 - Photo count gate: the conversation moves from the photo step to
\* the size step only while the session holds between 2 and 5 photos; the
\* photo that makes five moves it there by itself; and the session never
\* holds more than 5 photos.
C40_PhotoGate ==
    /\ (last.op \in {"get_photos", "skip_photos"} /\ last.state = "SIZE")
        => (RequiredPhotos <= Held /\ Held <= PhotoLimit)
    /\ (last.op = "get_photos" /\ Held = PhotoLimit) => last.state = "SIZE"
    /\ Held <= PhotoLimit

====
